---- MODULE Spec2Model ----
(***************************************************************************)
(* VegeHub client library: one device handle (class VegeHub) talking to    *)
(* one hub over HTTP.  The handle's public coroutines (retrieve_mac_address,*)
(* setup, request_update, set_actuator, actuator_states) run one at a time;*)
(* a coroutine suspends exactly while an HTTP attempt is in flight, so a   *)
(* state of the model is either "no call running" or "one attempt of one   *)
(* request awaiting its response".                                         *)
(*                                                                         *)
(* The device answers every attempt with a 2xx response or fails it (a     *)
(* non-2xx status or a connection error).  A scripted transport fails a    *)
(* given number of attempts and answers every later one, as the            *)
(* aioresponses mocks of tests/test_vegehub.py do.  /api/config/set stores *)
(* the blob it is sent and /api/config/get returns the stored blob.        *)
(*                                                                         *)
(* Optional JSON keys are sets of at most one element: {} is "key absent"  *)
(* (Python None for a cached value), {v} is "present with value v".        *)
(***************************************************************************)
EXTENDS Integers, Sequences, FiniteSets, TLC

\* ----------------------------------------------------------------- bounds
\* largest retries argument a caller passes
MaxRetries == 3

\* longest run of failing responses a transport is scripted with: enough to
\* exhaust the largest retry budget
MaxFails == MaxRetries + 1

\* ------------------------------------------------------------- JSON values
Absent == {}

Some(v) == {v}

The(opt) == CHOOSE v \in opt : TRUE

Max(a, b) == IF a >= b THEN a ELSE b

\* the endpoint name setup installs, and the fields of the endpoint it builds
HA_NAME == "HomeAssistant"

\* hub.server_type written by the old-schema path
HA_SERVER_TYPE == 3

\* the arguments the handle is constructed with
IP_ADDR == "192.168.0.100"

UNIQUE_ID == "aabbccddeeff"

\* the url property of a handle at address ip
Url(ip) == "http://" \o ip

\* ------------------------------------------------------------ device API
InfoEp == "/api/info/get"

CfgGetEp == "/api/config/get"

CfgSetEp == "/api/config/set"

UpdateEp == "/api/update/send"

ActSetEp == "/api/actuators/set"

ActStatusEp == "/api/actuators/status"

Endpoints == {InfoEp, CfgGetEp, CfgSetEp, UpdateEp, ActSetEp, ActStatusEp}

\* the two ways one attempt fails: a non-2xx status, a connection error
FailKinds == {"status", "transport"}

\* ------------------------------------------------------------ config blobs
\* One entry of the new schema's "endpoints" array.  "extra" stands for the
\* type-specific keys of "config" other than api_key, data_format and url
\* (route_key, server_url of a vegecloud endpoint); "" is a key not there.
Endpoint(id, name, type, enabled, cfg) ==
    [id |-> id, name |-> name, type |-> type, enabled |-> enabled,
     connection_method |-> "wifi", config |-> cfg]

VegeCloud(id) ==
    Endpoint(id, "VegeCloud", "vegecloud", TRUE,
             [api_key |-> "key1", data_format |-> "", url |-> "",
              extra |-> "route1"])

CustomServer(id) ==
    Endpoint(id, "CustomServer", "custom", FALSE,
             [api_key |-> "key2", data_format |-> "json",
              url |-> "https://custom.server.com", extra |-> ""])

\* an endpoint a former setup, or the user, left under the reserved name
StaleHA(id) ==
    Endpoint(id, HA_NAME, "custom", FALSE,
             [api_key |-> "stale", data_format |-> "json",
              url |-> "http://old", extra |-> ""])

\* the "hub" mapping of an old-schema blob; "other" stands for its other keys
HubCfg(u, t) == [server_url |-> u, server_type |-> t, other |-> "utc"]

\* A config blob.  isNone: the response had no body (Python None).
\* endpoints.kind: "absent" (no such key), "null" (key present, value not a
\* list) or "list"; misc stands for every other top-level key.
Blob(eps, key, hub) ==
    [isNone |-> FALSE, endpoints |-> eps, api_key |-> key, hub |-> hub,
     misc |-> Some("wifi")]

NoEndpoints == [kind |-> "absent", items |-> <<>>]

NullEndpoints == [kind |-> "null", items |-> <<>>]

EndpointList(items) == [kind |-> "list", items |-> items]

NoneBlob ==
    [isNone |-> TRUE, endpoints |-> NoEndpoints, api_key |-> Absent,
     hub |-> Absent, misc |-> Absent]

EmptyBlob == [NoneBlob EXCEPT !.isNone = FALSE]

\* the configurations a device is found with
OldConfigs ==
    { Blob(NoEndpoints, Some("oldkey"), Some(HubCfg(Absent, Absent))),
      Blob(NoEndpoints, Some("oldkey"), Some(HubCfg(Some("http://old"), Some(1)))),
      Blob(NullEndpoints, Some("oldkey"), Some(HubCfg(Absent, Absent))) }

InvalidConfigs ==
    { Blob(NoEndpoints, Absent, Some(HubCfg(Absent, Absent))),
      Blob(NoEndpoints, Some("oldkey"), Absent),
      Blob(NullEndpoints, Some("oldkey"), Absent),
      Blob(NoEndpoints, Absent, Absent) }

NewConfigs ==
    { Blob(EndpointList(<<>>), Some("oldkey"), Some(HubCfg(Absent, Absent))),
      Blob(EndpointList(<<VegeCloud(1)>>), Some("oldkey"), Some(HubCfg(Absent, Absent))),
      Blob(EndpointList(<<VegeCloud(1), CustomServer(2)>>), Absent, Absent),
      Blob(EndpointList(<<VegeCloud(1), StaleHA(2), CustomServer(3)>>),
           Some("oldkey"), Some(HubCfg(Some("http://old"), Some(1)))),
      Blob(EndpointList(<<StaleHA(4), VegeCloud(2)>>), Absent, Absent) }

DeviceConfigs == OldConfigs \cup InvalidConfigs \cup NewConfigs \cup {NoneBlob, EmptyBlob}

\* the arguments callers pass to setup
ApiKeys == {"KEY_A", "KEY_B"}

ServerUrls == {"http://ha/a", "http://ha/b"}

\* --------------------------------------------------- _modify_device_config
\* Python truthiness of the fetched blob: None and {} are falsy
Falsy(blob) == blob.isNone \/ blob = EmptyBlob

\* variant: new schema on the presence of the endpoints key alone
IsNewSchemaKeyPresent(blob) == blob.endpoints.kind # "absent"

IsNewSchema(blob) == blob.endpoints.kind = "list"

\* variant: one of the two keys is taken to be enough
IsOldSchemaEither(blob) == blob.api_key # Absent \/ blob.hub # Absent

IsOldSchema(blob) == blob.api_key # Absent /\ blob.hub # Absent

\* positions of the endpoints carrying the reserved name
HAIndexes(items) == {i \in 1..Len(items) : items[i].name = HA_NAME}

MinOf(S) == CHOOSE m \in S : \A x \in S : m <= x

MaxOf(S) == CHOOSE m \in S : \A x \in S : m >= x

\* variant: the number of endpoints plus one
NextIdByCount(items) == Len(items) + 1

\* max(existing ids) + 1, or 1 when there is no endpoint
NextId(items) ==
    IF items = <<>> THEN 1
    ELSE MaxOf({items[i].id : i \in 1..Len(items)}) + 1

HAEndpoint(id, apiKey, serverUrl) ==
    Endpoint(id, HA_NAME, "custom", TRUE,
             [api_key |-> apiKey, data_format |-> "json", url |-> serverUrl,
              extra |-> ""])

\* variant: the new endpoint is appended whether or not one exists
NewEndpointsAppend(items, apiKey, serverUrl) ==
    Append(items, HAEndpoint(NextId(items), apiKey, serverUrl))

\* variant: the overwritten endpoint is given the next id instead of its own
NewEndpointsFreshId(items, apiKey, serverUrl) ==
    IF HAIndexes(items) # {}
    THEN LET i == MinOf(HAIndexes(items))
         IN  [items EXCEPT ![i] = HAEndpoint(NextId(items), apiKey, serverUrl)]
    ELSE Append(items, HAEndpoint(NextId(items), apiKey, serverUrl))

\* overwrite the reserved-name endpoint in place keeping its id, or append
NewEndpoints(items, apiKey, serverUrl) ==
    IF HAIndexes(items) # {}
    THEN LET i == MinOf(HAIndexes(items))
         IN  [items EXCEPT ![i] = HAEndpoint(items[i].id, apiKey, serverUrl)]
    ELSE Append(items, HAEndpoint(NextId(items), apiKey, serverUrl))

\* variant: the new-schema path also sets the old schema's top-level key
NewSchemaConfigSetsKey(blob, apiKey, serverUrl) ==
    [blob EXCEPT !.endpoints.items = NewEndpoints(@, apiKey, serverUrl),
                 !.api_key = Some(apiKey)]

NewSchemaConfig(blob, apiKey, serverUrl) ==
    [blob EXCEPT !.endpoints.items = NewEndpoints(@, apiKey, serverUrl)]

\* variant: the hub mapping is built anew from the two keys it sets
OldSchemaConfigFreshHub(blob, apiKey, serverUrl) ==
    [blob EXCEPT !.api_key = Some(apiKey),
                 !.hub = Some([server_url |-> Some(serverUrl),
                               server_type |-> Some(HA_SERVER_TYPE),
                               other |-> ""])]

OldSchemaConfig(blob, apiKey, serverUrl) ==
    [blob EXCEPT !.api_key = Some(apiKey),
                 !.hub = Some([The(@) EXCEPT !.server_url = Some(serverUrl),
                                             !.server_type = Some(HA_SERVER_TYPE)])]

\* what an exception out of the reconciler looks like to setup
Raised(exc) == [kind |-> exc, blob |-> NoneBlob]

\* variant: no guard against a missing body, so that the key lookup on
\* None raises TypeError
ModifyUnguarded(blob, apiKey, serverUrl) ==
    IF blob.isNone THEN Raised("TypeError")
    ELSE IF IsNewSchema(blob)
         THEN [kind |-> "blob", blob |-> NewSchemaConfig(blob, apiKey, serverUrl)]
    ELSE IF IsOldSchema(blob)
         THEN [kind |-> "blob", blob |-> OldSchemaConfig(blob, apiKey, serverUrl)]
    ELSE [kind |-> "none", blob |-> NoneBlob]

\* variant: the old-schema path is taken on api_key alone, so that a blob
\* without "hub" raises KeyError
ModifyKeyError(blob, apiKey, serverUrl) ==
    IF Falsy(blob) THEN [kind |-> "none", blob |-> NoneBlob]
    ELSE IF IsNewSchema(blob)
         THEN [kind |-> "blob", blob |-> NewSchemaConfig(blob, apiKey, serverUrl)]
    ELSE IF blob.api_key # Absent
         THEN IF blob.hub = Absent THEN Raised("KeyError")
              ELSE [kind |-> "blob",
                    blob |-> OldSchemaConfig(blob, apiKey, serverUrl)]
    ELSE [kind |-> "none", blob |-> NoneBlob]

\* variant: a blob of neither schema is handed back as it came, to be
\* written
ModifyPassesUnclassified(blob, apiKey, serverUrl) ==
    IF Falsy(blob) THEN [kind |-> "none", blob |-> NoneBlob]
    ELSE IF IsNewSchema(blob)
         THEN [kind |-> "blob", blob |-> NewSchemaConfig(blob, apiKey, serverUrl)]
    ELSE IF IsOldSchema(blob)
         THEN [kind |-> "blob", blob |-> OldSchemaConfig(blob, apiKey, serverUrl)]
    ELSE [kind |-> "blob", blob |-> blob]

\* kind "blob": the blob to write; kind "none": the reconciler returned None
ModifyDeviceConfig(blob, apiKey, serverUrl) ==
    IF Falsy(blob) THEN [kind |-> "none", blob |-> NoneBlob]
    ELSE IF IsNewSchema(blob)
         THEN [kind |-> "blob", blob |-> NewSchemaConfig(blob, apiKey, serverUrl)]
    ELSE IF IsOldSchema(blob)
         THEN [kind |-> "blob", blob |-> OldSchemaConfig(blob, apiKey, serverUrl)]
    ELSE [kind |-> "none", blob |-> NoneBlob]

\* ------------------------------------------------------ /api/info/get body
HubInfo(channels, actuators, version, ac) ==
    [num_channels |-> channels, num_actuators |-> actuators,
     version |-> version, is_ac |-> ac]

FullHub == HubInfo(Some(4), Some(2), Some("3.4.5"), Some(0))

\* a hub object that lacks one of the documented keys
PartialHub == HubInfo(Some(4), Absent, Some("3.4.5"), Some(1))

\* A MAC address is its sequence of characters.
RawMacs == { <<"A", "b", ":", "0", "1">>, <<"a", "B", "0", "1">> }

\* the bodies a 2xx response of /api/info/get carries: none at all, {} or
\* {"wifi": {}}, and the combinations of a hub object with wifi.mac_addr
\* absent, empty or set
InfoBodies ==
    { [isNone |-> TRUE, hub |-> Absent, mac |-> Absent] }
    \cup [isNone : {FALSE}, hub : {Absent, Some(FullHub), Some(PartialHub)},
          mac : {Absent, Some(<<>>)} \cup {Some(m) : m \in RawMacs}]

\* variant: a body without a hub object is taken as an empty hub object
GetDeviceInfoEmptyHub(body) ==
    IF body.isNone \/ body.hub = Absent
    THEN Some(HubInfo(Absent, Absent, Absent, Absent))
    ELSE body.hub

\* _get_device_info: the "hub" sub-object of the body, None without one
GetDeviceInfo(body) == IF body.isNone THEN Absent ELSE body.hub

UpperChar(c) ==
    CASE c = "a" -> "A" [] c = "b" -> "B" [] OTHER -> c

LowerChar(c) ==
    CASE c = "A" -> "a" [] c = "B" -> "b" [] OTHER -> c

IsHexChar(c) == c \notin {":", "-"}

\* the colon-delimited form of a separator-free address: "AB01" is "AB:01"
RECURSIVE Colonize(_)
Colonize(hex) ==
    IF Len(hex) <= 2 THEN hex
    ELSE <<hex[1], hex[2], ":">> \o Colonize(SubSeq(hex, 3, Len(hex)))

\* variant: the address is cached in its colon-delimited upper-case form
MacAddressColons(raw) ==
    LET hex == SelectSeq(raw, IsHexChar)
    IN  Colonize([i \in 1..Len(hex) |-> UpperChar(hex[i])])

\* mac_address: the reported address without separators, in upper case
MacAddress(raw) ==
    LET hex == SelectSeq(raw, IsHexChar)
    IN  [i \in 1..Len(hex) |-> UpperChar(hex[i])]

\* variant: a body without wifi.mac_addr reads as a default address
ReportedMacDefault(body) ==
    IF body.isNone \/ body.mac = Absent THEN <<"0", "0">> ELSE The(body.mac)

\* wifi.mac_addr of an info body, "" when the body has none
ReportedMac(body) ==
    IF body.isNone \/ body.mac = Absent THEN <<>> ELSE The(body.mac)

\* the bodies a 2xx response of /api/actuators/status carries: without the
\* "actuators" key, or with a list of actuator states under it
ActuatorBodies ==
    { [actuators |-> Absent] }
    \cup { [actuators |-> Some(l)] : l \in {<<>>, <<0>>, <<1, 0>>} }

\* ------------------------------------------------------ the update payload
\* The hub pushes {"mac": ..., "sensors": [{"slot": i, "samples": [{"v": x,
\* "t": time}, ...]}, ...]}.  Slots are numbered from 1: the sensor
\* channels, then the battery, then the actuators.
MaxChannels == 4
MaxActuators == 4

PayloadMac == <<"A", "b", "0", "1">>

Sample(v, t) == [v |-> v, t |-> t]

\* the samples of a reporting slot: one sample, or two of which the last
\* has the earlier time and the smaller value
OneSample(slot) == << Sample(10 * slot, 1) >>

TwoSamples(slot) == << Sample(10 * slot + 1, 2), Sample(10 * slot, 1) >>

SlotKinds == {"absent", "empty", "one", "two"}

Sensor(slot, kind) ==
    [slot |-> slot,
     samples |-> CASE kind = "one" -> OneSample(slot)
                   [] kind = "two" -> TwoSamples(slot)
                   [] OTHER -> <<>>]

\* the "sensors" list of the slots 1..k that shape does not leave out
RECURSIVE SensorList(_, _)
SensorList(shape, k) ==
    IF k = 0 THEN <<>>
    ELSE IF shape[k] = "absent" THEN SensorList(shape, k - 1)
    ELSE Append(SensorList(shape, k - 1), Sensor(k, shape[k]))

UpdatePayload(macOpt, sensorsOpt) == [mac |-> macOpt, sensors |-> sensorsOpt]

\* the payload {}
EmptyPayload == UpdatePayload(Absent, Absent)

\* the slots a hub with n sensor channels and m actuators reports
SlotsOf(n, m, allAct) == IF allAct THEN 1..(n + m) ELSE 1..(n + 1 + m)

\* the payloads such a hub may push: shapes in which at most two slots are
\* left out or have no samples and the others carry as many samples each,
\* and the payloads without "sensors"
Shapes(n, m, allAct) ==
    { sh \in [SlotsOf(n, m, allAct) -> SlotKinds] :
        /\ Cardinality({i \in DOMAIN sh : sh[i] \in {"absent", "empty"}}) <= 2
        /\ Cardinality({sh[i] : i \in DOMAIN sh} \ {"absent", "empty"}) <= 1 }

Payloads(n, m, allAct) ==
    {EmptyPayload, UpdatePayload(Some(PayloadMac), Absent),
     UpdatePayload(Some(PayloadMac), Some(<<>>))}
    \cup { UpdatePayload(Some(PayloadMac),
                         Some(SensorList(sh, n + m + (IF allAct THEN 0 ELSE 1)))) :
              sh \in Shapes(n, m, allAct) }

\* --------------------------------------------------------------- the state
VARIABLES
    devCfg,       \* device: the configuration blob it holds
    script,       \* transport: {k} = the next k attempts fail and all later
                  \* ones are answered; {} = unscripted, any attempt may fail
    mac,          \* handle: _mac_address ("" until retrieved)
    info,         \* handle: _info, the cached hub blob (Absent = None)
    pc,           \* "idle", "wait" (an attempt is in flight) or "done"
    op,           \* the public coroutine running or last run
    retries,      \* its retries argument
    apiKey,       \* setup's arguments
    serverUrl,
    ep,           \* endpoint of the request in flight
    attempt,      \* the executor's failure counter for this request
    fetched,      \* setup: {the blob /api/config/get returned}, {} before
    written,      \* setup: {the body of its /api/config/set request}, or {}
    result,       \* "none" while running; the return value or the exception
    lastErr,      \* how the latest failed attempt failed
    sent,         \* history: attempts issued for the request in flight
    before,       \* history: the script when the request in flight began
    reqLog,       \* history: the endpoints this call has sent a request to
    repeat,       \* history: this call is a setup that repeats, with the
                  \* same arguments, the call before it, a setup that wrote
    infoBody,     \* history: {the body of the 2xx info response this call
                  \* got}, {} without one
    returned,     \* actuator_states: {the list it returned}, {} otherwise
    hadInfo,      \* history: _info was set when this call began
    ip_address,   \* handle: the address given to VegeHub(ip_address, ...)
    url,          \* handle: the base of every request's address
    unique_id,    \* handle: {the unique_id given to the constructor}
    lastCall      \* history, kept where a scenario asks for it: the call
                  \* made before the one running or last run

\* the payload converters of helpers.py: their arguments and what the last
\* call returned
VARIABLES
    cvPayload,    \* the update payload
    cvSensors,    \* num_sensors
    cvActuators,  \* num_actuators
    cvAll,        \* the fourth argument: every slot is an actuator
    cvCall,       \* "none", "latest" or "ha": the converter last called
    cvOut,        \* the mapping it returned, a set of [key, v] entries
    cvErr         \* "none", or the exception it raised

\* Two handles at work in one event loop, each on the device at its
\* ip_address, with a session of its own making or with the one session the
\* caller made and gave to VegeHub(ip_address, session=session).
VARIABLES
    fIp,          \* handle -> the device at its ip_address
    fInjected,    \* handle -> it was built with the caller's session
    fShared,      \* the caller's session: "open" or "closed"
    fClosedBy,    \* who closed it: "nobody", "caller" or "library"
    fOwn,         \* handle -> a session the library made for it is open
    fCfg,         \* device -> the configuration blob it holds
    fPc,          \* handle -> "idle", "wait" or "done"
    fOp,          \* handle -> the coroutine running or last run
    fEp,          \* handle -> endpoint of its request in flight
    fKey,         \* handle -> setup's api key
    fRetries,     \* handle -> the retries argument
    fTry,         \* handle -> failed attempts of the request in flight
    fFetched,     \* handle -> setup: {the blob fetched}, {} before
    fResult,      \* handle -> "none", the value returned or the exception
    fMac,         \* handle -> _mac_address
    fInfo         \* handle -> _info

\* a call of a calibration transform: the argument, the function called,
\* what it returned (Absent is None) and what it raised
VARIABLES
    tfValue,
    tfCall,
    tfOut,
    tfErr

\* a call of _modify_device_config on its own: the arguments, whether it
\* has returned, and what it returned
VARIABLES
    mcBlob,
    mcKey,
    mcUrl,
    mcDone,
    mcOut

hubVars ==
    <<devCfg, script, mac, info, pc, op, retries, apiKey, serverUrl, ep,
      attempt, fetched, written, result, lastErr, sent, before, reqLog,
      repeat, infoBody, returned, hadInfo, lastCall, ip_address, url,
      unique_id>>

convVars == <<cvPayload, cvSensors, cvActuators, cvAll, cvCall, cvOut, cvErr>>

fleetVars ==
    <<fIp, fInjected, fShared, fClosedBy, fOwn, fCfg, fPc, fOp, fEp, fKey,
      fRetries, fTry, fFetched, fResult, fMac, fInfo>>

calVars == <<tfValue, tfCall, tfOut, tfErr>>

modVars == <<mcBlob, mcKey, mcUrl, mcDone, mcOut>>

vars == <<hubVars, convVars, fleetVars, calVars, modVars>>

\* what the operations of a hub handle leave alone
apart == <<convVars, fleetVars, calVars, modVars>>

\* no converter has been called
ConvIdle ==
    /\ cvPayload = EmptyPayload
    /\ cvSensors = 0
    /\ cvActuators = 0
    /\ cvAll = FALSE
    /\ cvCall = "none"
    /\ cvOut = {}
    /\ cvErr = "none"

\* no transform has been called
CalIdle ==
    /\ tfValue = [type |-> "NoneType"]
    /\ tfCall = "none"
    /\ tfOut = Absent
    /\ tfErr = "none"

\* _modify_device_config has not been called on its own
ModIdle ==
    /\ mcBlob = NoneBlob
    /\ mcKey = ""
    /\ mcUrl = ""
    /\ mcDone = FALSE
    /\ mcOut = [kind |-> "none", blob |-> NoneBlob]

device == <<devCfg, script>>

handle == <<mac, info>>

\* what the constructor is given, and what it makes of it
identity == <<ip_address, url, unique_id>>

Ops == {"retrieve_mac_address", "setup", "request_update", "set_actuator",
        "actuator_states"}

\* variant: the sensor count is read from the actuator entry
NumSensorsSwapped == IF info = Absent THEN Absent ELSE The(info).num_actuators

\* the read-through properties of the handle
NumSensors == IF info = Absent THEN Absent ELSE The(info).num_channels

\* variant: a count that falls back to 0
NumActuatorsDefault ==
    IF info = Absent \/ The(info).num_actuators = Absent THEN Some(0)
    ELSE The(info).num_actuators

NumActuators == IF info = Absent THEN Absent ELSE The(info).num_actuators

SwVersion == IF info = Absent THEN Absent ELSE The(info).version

IsAc ==
    IF info = Absent \/ The(info).is_ac = Absent THEN Absent
    ELSE Some(The(The(info).is_ac) # 0)

SimpleMacAddress == [i \in 1..Len(mac) |-> LowerChar(mac[i])]

\* the record of the call before: none is kept
NoLog == [kept |-> FALSE, calls |-> <<>>]

\* the record of the call before: calls is empty, or holds that call
Logged(calls) == [kept |-> TRUE, calls |-> calls]

\* a handle as VegeHub(ip_address) builds it, no call made yet
Fresh ==
    /\ ip_address = IP_ADDR
    /\ url = Url(IP_ADDR)
    /\ unique_id = Some(UNIQUE_ID)
    /\ mac = <<>>
    /\ info = Absent
    /\ pc = "idle"
    /\ op = "none"
    /\ retries = 0
    /\ apiKey = ""
    /\ serverUrl = ""
    /\ ep = "none"
    /\ attempt = 0
    /\ fetched = Absent
    /\ written = Absent
    /\ result = "none"
    /\ lastErr = "none"
    /\ sent = 0
    /\ before = Absent
    /\ reqLog = <<>>
    /\ repeat = FALSE
    /\ infoBody = Absent
    /\ returned = Absent
    /\ hadInfo = FALSE

\* the handles and the devices of the two-handle scenario
Handles == {"hub", "bad_hub"}

Devices == {"d1", "d2"}

\* what each device holds and reports
FleetConfig(d) ==
    IF d = "d1"
    THEN Blob(EndpointList(<<VegeCloud(1)>>), Some("oldkey"),
              Some(HubCfg(Absent, Absent)))
    ELSE Blob(NoEndpoints, Some("oldkey"), Some(HubCfg(Absent, Absent)))

FleetMac(d) ==
    IF d = "d1" THEN <<"A", "b", ":", "0", "1">> ELSE <<"0", "1", ":", "a", "B">>

FleetInfo(d) == IF d = "d1" THEN FullHub ELSE PartialHub

\* no handle has made a call; the sessions as the constructors left them
FleetFresh ==
    /\ fShared = "open"
    /\ fClosedBy = "nobody"
    /\ fOwn = [h \in Handles |-> FALSE]
    /\ fCfg = [d \in Devices |-> FleetConfig(d)]
    /\ fPc = [h \in Handles |-> "idle"]
    /\ fOp = [h \in Handles |-> "none"]
    /\ fEp = [h \in Handles |-> "none"]
    /\ fKey = [h \in Handles |-> ""]
    /\ fRetries = [h \in Handles |-> 0]
    /\ fTry = [h \in Handles |-> 0]
    /\ fFetched = [h \in Handles |-> Absent]
    /\ fResult = [h \in Handles |-> "none"]
    /\ fMac = [h \in Handles |-> <<>>]
    /\ fInfo = [h \in Handles |-> Absent]

\* the two-handle scenario is not in play
FleetIdle ==
    /\ fIp = [h \in Handles |-> "d1"]
    /\ fInjected = [h \in Handles |-> FALSE]
    /\ FleetFresh

Init ==
    /\ devCfg \in DeviceConfigs
    /\ script \in {Absent} \cup {Some(k) : k \in 0..MaxFails}
    /\ Fresh
    /\ lastCall = NoLog
    /\ ConvIdle
    /\ FleetIdle
    /\ CalIdle
    /\ ModIdle

\* no hub is in play
HubIdle ==
    /\ devCfg = EmptyBlob
    /\ script = Absent
    /\ Fresh
    /\ lastCall = NoLog

\* ------------------------------------------------- the retrying executor
\* The executor counts failed attempts and gives up once the count passes
\* the retries argument:
\*     attempt = 0
\*     while attempt <= retries:
\*         try:    send; return the body of a 2xx response
\*         except: attempt += 1
\*                 if attempt > retries: raise ConnectionError
\* variant: one attempt more than the loop allows
ExhaustedLate(failures, r) == failures > r + 1

\* variant: the retries argument counts attempts, not retries
ExhaustedEarly(failures, r) == failures >= r

Exhausted(failures, r) == failures > r

\* what the caller gets once the budget is spent, whichever way the last
\* attempt failed: ConnectionError is raised
\* variant: a non-2xx status is reported as an ordinary false
OnExhaustedSwallow(kind) ==
    IF kind = "status" THEN "False" ELSE "ConnectionError"

OnExhausted(kind) == "ConnectionError"

\* the first attempt of a request to endpoint e goes out
Issue(e, log) ==
    /\ ep' = e
    /\ attempt' = 0
    /\ sent' = 1
    /\ before' = script
    /\ reqLog' = Append(log, e)
    /\ pc' = "wait"

\* variant: one more attempt goes out after the response
FinishAfterOneMore(res) ==
    /\ pc' = "done"
    /\ result' = res
    /\ sent' = sent + 1
    /\ UNCHANGED <<ep, attempt, before, reqLog>>

\* the call returns, or raises, res
Finish(res) ==
    /\ pc' = "done"
    /\ result' = res
    /\ UNCHANGED <<ep, attempt, sent, before, reqLog>>

\* the finished call was a setup whose config write was answered
WroteConfig ==
    /\ pc = "done"
    /\ op = "setup"
    /\ \E i \in 1..Len(reqLog) : reqLog[i] = InfoEp

\* a public coroutine is called and runs up to its first await
Begin(o, r, k, u, e) ==
    /\ pc \in {"idle", "done"}
    /\ op' = o
    /\ retries' = r
    /\ apiKey' = k
    /\ serverUrl' = u
    /\ Issue(e, <<>>)
    /\ fetched' = Absent
    /\ written' = Absent
    /\ result' = "none"
    /\ lastErr' = "none"
    /\ repeat' = (o = "setup" /\ WroteConfig /\ k = apiKey /\ u = serverUrl)
    /\ infoBody' = Absent
    /\ returned' = Absent
    /\ hadInfo' = (info # Absent)
    /\ lastCall' = IF lastCall.kept /\ pc = "done"
                   THEN Logged(<<[op |-> op, retries |-> retries, ep |-> ep,
                                  before |-> before, sent |-> sent,
                                  result |-> result, fetched |-> fetched]>>)
                   ELSE lastCall
    /\ UNCHANGED <<device, handle, identity, apart>>

RetrieveMacAddress(r) == Begin("retrieve_mac_address", r, "", "", InfoEp)

Setup(k, u, r) == Begin("setup", r, k, u, CfgGetEp)

RequestUpdate(r) == Begin("request_update", r, "", "", UpdateEp)

SetActuator(r) == Begin("set_actuator", r, "", "", ActSetEp)

ActuatorStates(r) == Begin("actuator_states", r, "", "", ActStatusEp)

\* the transport may fail the attempt in flight
MayFail == script = Absent \/ \E k \in script : k > 0

\* the transport may answer the attempt in flight
MayAnswer == script = Absent \/ script = Some(0)

\* the script after one failing response
Consumed == {k - 1 : k \in script}

\* variant: a refresh that is given up leaves _info as it was
InfoKept(o, e, cur) == cur

\* variant: whatever request is given up, _info is unset
InfoDroppedOnGiveUp(o, e, cur) == Absent

\* _info after the request of operation o to endpoint e is given up: unset
\* when the request was setup's info refresh
InfoAfterGiveUp(o, e, cur) ==
    IF o = "setup" /\ e = InfoEp THEN Absent ELSE cur

\* An attempt fails (non-2xx status or connection error): retry, or raise
\* ConnectionError once the budget is spent.  A setup whose info refresh is
\* given up leaves _info unset.
AttemptFails(kind) ==
    /\ pc = "wait"
    /\ MayFail
    /\ script' = Consumed
    /\ lastErr' = kind
    /\ attempt' = attempt + 1
    /\ IF Exhausted(attempt + 1, retries)
       THEN /\ pc' = "done"
            /\ result' = OnExhausted(kind)
            /\ sent' = sent
            /\ info' = InfoAfterGiveUp(op, ep, info)
       ELSE /\ pc' = "wait"
            /\ result' = result
            /\ sent' = sent + 1
            /\ info' = info
    /\ UNCHANGED <<devCfg, mac, op, retries, apiKey, serverUrl, ep, fetched,
                   written, before, reqLog, repeat, infoBody, returned,
                   hadInfo, lastCall,
                   identity, apart>>

\* the 2xx response of the request in flight arrives
Answered(o, e) == pc = "wait" /\ op = o /\ ep = e /\ MayAnswer

\* retrieve_mac_address: true and the address cached when wifi.mac_addr is a
\* non-empty string, false and nothing changed otherwise
MacResponse(body) ==
    /\ Answered("retrieve_mac_address", InfoEp)
    /\ IF ReportedMac(body) # <<>>
       THEN mac' = MacAddress(ReportedMac(body)) /\ Finish("True")
       ELSE mac' = mac /\ Finish("False")
    /\ infoBody' = Some(body)
    /\ UNCHANGED <<device, info, op, retries, apiKey, serverUrl, fetched,
                   written, lastErr, repeat, returned, hadInfo, lastCall,
                   identity, apart>>

UpdateResponse ==
    /\ Answered("request_update", UpdateEp)
    /\ Finish("True")
    /\ UNCHANGED <<device, handle, op, retries, apiKey, serverUrl, fetched,
                   written, lastErr, repeat, infoBody, returned, hadInfo,
                   lastCall,
                   identity, apart>>

ActuatorSetResponse ==
    /\ Answered("set_actuator", ActSetEp)
    /\ Finish("True")
    /\ UNCHANGED <<device, handle, op, retries, apiKey, serverUrl, fetched,
                   written, lastErr, repeat, infoBody, returned, hadInfo,
                   lastCall,
                   identity, apart>>

\* variant: a body without the key reads as no actuators
ActuatorStatesLenient(resp) == "actuators"

\* actuator_states: the "actuators" list of the body; a body without that
\* key raises AttributeError
ActuatorStatesResult(resp) ==
    IF resp.actuators # Absent THEN "actuators" ELSE "AttributeError"

ActuatorStatusResponse(resp) ==
    /\ Answered("actuator_states", ActStatusEp)
    /\ Finish(ActuatorStatesResult(resp))
    /\ returned' = resp.actuators
    /\ UNCHANGED <<device, handle, op, retries, apiKey, serverUrl, fetched,
                   written, lastErr, repeat, infoBody, hadInfo, lastCall,
                   identity, apart>>

\* variant: the blob fetched by the call before, when there is one, is used
\* again
GetDeviceConfigCached(body, log) ==
    IF log.calls # <<>> /\ log.calls[1].fetched # Absent
    THEN The(log.calls[1].fetched)
    ELSE body

\* _get_device_config: the body of this call's /api/config/get response,
\* whatever the calls before have fetched
GetDeviceConfig(body, log) == body

\* setup, step 1 to 6: the fetched blob is reconciled; without a blob to
\* write setup returns false, otherwise the write goes out
ConfigGetResponse ==
    /\ Answered("setup", CfgGetEp)
    /\ fetched' = Some(GetDeviceConfig(devCfg, lastCall))
    /\ LET m == ModifyDeviceConfig(GetDeviceConfig(devCfg, lastCall),
                                   apiKey, serverUrl)
       IN  CASE m.kind = "blob" ->
                  /\ written' = Some(m.blob)
                  /\ Issue(CfgSetEp, reqLog)
                  /\ result' = result
             [] m.kind = "none" ->
                  /\ written' = written
                  /\ Finish("False")
             [] OTHER ->
                  /\ written' = written
                  /\ Finish(m.kind)
    /\ UNCHANGED <<device, handle, op, retries, apiKey, serverUrl, lastErr,
                   repeat, infoBody, returned, hadInfo, lastCall,
                   identity, apart>>

\* setup, step 7: the device has stored the blob; the info refresh goes out
ConfigSetResponse ==
    /\ Answered("setup", CfgSetEp)
    /\ devCfg' = The(written)
    /\ Issue(InfoEp, reqLog)
    /\ UNCHANGED <<script, handle, op, retries, apiKey, serverUrl, fetched,
                   written, result, lastErr, repeat, infoBody, returned,
                   hadInfo, lastCall,
                   identity, apart>>

\* setup's info refresh: _info becomes the hub object of the body (None
\* without one); setup returns the result of the write
InfoResponse(body) ==
    /\ Answered("setup", InfoEp)
    /\ info' = GetDeviceInfo(body)
    /\ Finish("True")
    /\ infoBody' = Some(body)
    /\ UNCHANGED <<device, mac, op, retries, apiKey, serverUrl, fetched,
                   written, lastErr, repeat, returned, hadInfo, lastCall,
                   identity, apart>>

Next ==
    \/ \E r \in 0..MaxRetries : RetrieveMacAddress(r)
    \/ \E k \in ApiKeys, u \in ServerUrls, r \in 0..MaxRetries : Setup(k, u, r)
    \/ \E r \in 0..MaxRetries : RequestUpdate(r)
    \/ \E r \in 0..MaxRetries : SetActuator(r)
    \/ \E r \in 0..MaxRetries : ActuatorStates(r)
    \/ \E kind \in FailKinds : AttemptFails(kind)
    \/ \E body \in InfoBodies : MacResponse(body)
    \/ UpdateResponse
    \/ ActuatorSetResponse
    \/ \E resp \in ActuatorBodies : ActuatorStatusResponse(resp)
    \/ ConfigGetResponse
    \/ ConfigSetResponse
    \/ \E body \in InfoBodies : InfoResponse(body)

Spec == Init /\ [][Next]_vars

\* ---- consecutive calls on one handle
\* The tests that call an operation twice against one scripted mock
\* (test_set_actuator_fail, test_actuator_states_fail,
\* test_setup_failure_no_info): the transport fails a fixed number of
\* attempts, and the outcome of the call before is on record.
SeqConfigs == { Blob(NoEndpoints, Some("oldkey"), Some(HubCfg(Absent, Absent))) }

SeqInit ==
    /\ devCfg \in SeqConfigs
    /\ script \in {Some(k) : k \in 0..MaxFails}
    /\ Fresh
    /\ lastCall = Logged(<<>>)
    /\ ConvIdle
    /\ FleetIdle
    /\ CalIdle
    /\ ModIdle

SpecSeq == SeqInit /\ [][Next]_vars

\* ---- every attempt comes to an end
\* The transport ends every attempt it is given: the response arrives, or the
\* attempt fails (aiohttp raises on a connection that cannot be made or is
\* lost).  A handle on a device of either schema, over a transport that is
\* unscripted or fails two attempts.
LiveConfigs ==
    { Blob(NoEndpoints, Some("oldkey"), Some(HubCfg(Absent, Absent))),
      Blob(EndpointList(<<VegeCloud(1)>>), Some("oldkey"),
           Some(HubCfg(Absent, Absent))) }

LiveInit ==
    /\ devCfg \in LiveConfigs
    /\ script \in {Absent, Some(2)}
    /\ Fresh
    /\ lastCall = NoLog
    /\ ConvIdle
    /\ FleetIdle
    /\ CalIdle
    /\ ModIdle

\* the attempt in flight ends, one way or the other
AttemptEnds ==
    \/ \E kind \in FailKinds : AttemptFails(kind)
    \/ \E body \in InfoBodies : MacResponse(body)
    \/ UpdateResponse
    \/ ActuatorSetResponse
    \/ \E resp \in ActuatorBodies : ActuatorStatusResponse(resp)
    \/ ConfigGetResponse
    \/ ConfigSetResponse
    \/ \E body \in InfoBodies : InfoResponse(body)

SpecLive == LiveInit /\ [][Next]_vars /\ WF_vars(AttemptEnds)

\* ==================================================== payload converters
\* A mapping is the set of its [key, v] entries; a key is a prefix (the
\* characters of the MAC address, or one name) and a number.
LatestKey(macAddr, slot) ==
    [prefix |-> [i \in 1..Len(macAddr) |-> LowerChar(macAddr[i])],
     idx |-> slot]

HaKey(name, i) == [prefix |-> <<name>>, idx |-> i]

\* variant: the sample with the latest time
NewestSample(samples) ==
    CHOOSE x \in {samples[i] : i \in 1..Len(samples)} :
        \A i \in 1..Len(samples) : samples[i].t <= x.t

\* samples[-1]
LastSample(samples) == samples[Len(samples)]

\* the entries of the "sensors" list that carry samples
Reporting(p) ==
    IF p.mac = Absent \/ p.sensors = Absent THEN {}
    ELSE { The(p.sensors)[i] : i \in
             {j \in 1..Len(The(p.sensors)) : The(p.sensors)[j].samples # <<>>} }

\* a payload with a slot whose samples list is empty
HasEmptySlot(p) ==
    /\ p.mac # Absent
    /\ p.sensors # Absent
    /\ \E i \in 1..Len(The(p.sensors)) : The(p.sensors)[i].samples = <<>>

\* update_data_to_latest_dict: {mac in lower case}_{slot} -> the v of the
\* slot's last sample
UpdateDataToLatestDict(p) ==
    { [key |-> LatestKey(The(p.mac), s.slot), v |-> LastSample(s.samples).v] :
        s \in Reporting(p) }

\* variant: the battery is taken to be the last sensor channel and the
\* actuators to follow it at once
HaKeyNoBatterySlot(slot, n, allAct) ==
    IF allAct THEN HaKey("actuator", slot - 1)
    ELSE IF slot <= n THEN HaKey("analog", slot - 1)
    ELSE HaKey("actuator", slot - n - 1)

\* variant: the slot numbering of the sensor mode in every mode
HaKeyIgnoresMode(slot, n, allAct) ==
    IF slot <= n THEN HaKey("analog", slot - 1)
    ELSE IF slot = n + 1 THEN HaKey("battery", 0)
    ELSE HaKey("actuator", slot - n - 2)

\* the key update_data_to_ha_dict files a slot under
HaKeyOf(slot, n, allAct) ==
    IF allAct THEN HaKey("actuator", slot - 1)
    ELSE IF slot <= n THEN HaKey("analog", slot - 1)
    ELSE IF slot = n + 1 THEN HaKey("battery", 0)
    ELSE HaKey("actuator", slot - n - 2)

\* variant: an actuator the hub declares and the payload lacks reads as 0
UpdateDataToHaDictPadded(p, n, m, allAct) ==
    LET got == { [key |-> HaKeyOf(s.slot, n, allAct),
                  v |-> LastSample(s.samples).v] : s \in Reporting(p) }
    IN  got \cup { [key |-> HaKey("actuator", j), v |-> 0] :
                     j \in {i \in 0..(m - 1) :
                              \A e \in got : e.key # HaKey("actuator", i)} }

\* variant: a slot without samples is reported with the value 0
UpdateDataToHaDictZeroes(p, n, m, allAct) ==
    IF p.mac = Absent \/ p.sensors = Absent THEN {}
    ELSE { [key |-> HaKeyOf(The(p.sensors)[i].slot, n, allAct),
            v |-> IF The(p.sensors)[i].samples = <<>> THEN 0
                  ELSE LastSample(The(p.sensors)[i].samples).v] :
              i \in 1..Len(The(p.sensors)) }

\* update_data_to_ha_dict(data, num_sensors, num_actuators, all_actuators)
UpdateDataToHaDict(p, n, m, allAct) ==
    { [key |-> HaKeyOf(s.slot, n, allAct), v |-> LastSample(s.samples).v] :
        s \in Reporting(p) }

ConvArgs ==
    /\ cvSensors \in 0..MaxChannels
    /\ cvActuators \in 0..MaxActuators
    /\ cvAll \in BOOLEAN
    /\ cvPayload \in Payloads(cvSensors, cvActuators, cvAll)

ConvInit ==
    /\ HubIdle
    /\ FleetIdle
    /\ CalIdle
    /\ ModIdle
    /\ ConvArgs
    /\ cvCall = "none"
    /\ cvOut = {}
    /\ cvErr = "none"

\* update_data_to_latest_dict(cvPayload).  What it does with a slot whose
\* samples list is empty is not fixed by any test: it may leave the slot
\* out, or the subscript samples[-1] may raise IndexError.
ToLatestValues(raises) ==
    /\ cvCall' = "latest"
    /\ IF raises /\ HasEmptySlot(cvPayload)
       THEN cvOut' = {} /\ cvErr' = "IndexError"
       ELSE cvOut' = UpdateDataToLatestDict(cvPayload) /\ cvErr' = "none"
    /\ UNCHANGED <<hubVars, fleetVars, calVars, modVars, cvPayload, cvSensors, cvActuators, cvAll>>

\* update_data_to_ha_dict(cvPayload, cvSensors, cvActuators, cvAll)
ToHomeAssistantValues ==
    /\ cvCall' = "ha"
    /\ cvOut' = UpdateDataToHaDict(cvPayload, cvSensors, cvActuators, cvAll)
    /\ cvErr' = "none"
    /\ UNCHANGED <<hubVars, fleetVars, calVars, modVars, cvPayload, cvSensors, cvActuators, cvAll>>

ConvNext ==
    \/ \E raises \in BOOLEAN : ToLatestValues(raises)
    \/ ToHomeAssistantValues

SpecConv == ConvInit /\ [][ConvNext]_vars

\* ========================================================== two handles
FleetOps == {"retrieve_mac_address", "setup", "set_actuator"}

FleetUrl == "http://ha/a"

\* each handle is set up with a key of its own
FleetKey(h) == IF h = "hub" THEN "KEY_A" ELSE "KEY_B"

FirstEp(o) ==
    CASE o = "retrieve_mac_address" -> InfoEp
      [] o = "setup" -> CfgGetEp
      [] OTHER -> ActSetEp

\* variant: the requests of every handle built on the caller's session go to
\* the device of the handle that was given the session first
TargetOfSession(h, ips, injected) ==
    IF injected[h] THEN ips["hub"] ELSE ips[h]

\* the device a request of handle h reaches: the one at http://{ip_address}
Target(h, ips, injected) == ips[h]

\* variant: the session used is left open
ClosesNever(injected) == FALSE

\* the library closes the session a call used exactly when it made that
\* session itself
Closes(injected) == ~injected

\* the sessions once a call of h is over
Release(h) ==
    /\ fOwn' = [fOwn EXCEPT ![h] = @ /\ ~Closes(fInjected[h])]
    /\ IF fInjected[h] /\ Closes(fInjected[h])
       THEN fShared' = "closed" /\ fClosedBy' = "library"
       ELSE UNCHANGED <<fShared, fClosedBy>>

\* the call of h goes on with a request to endpoint e
FleetIssue(h, e) ==
    /\ fEp' = [fEp EXCEPT ![h] = e]
    /\ fTry' = [fTry EXCEPT ![h] = 0]
    /\ UNCHANGED <<fPc, fResult, fRetries, fOwn, fShared, fClosedBy>>

\* the call of h returns or raises res; its locals are gone
FleetFinish(h, res) ==
    /\ fPc' = [fPc EXCEPT ![h] = "done"]
    /\ fResult' = [fResult EXCEPT ![h] = res]
    /\ fEp' = [fEp EXCEPT ![h] = "none"]
    /\ fTry' = [fTry EXCEPT ![h] = 0]
    /\ fRetries' = [fRetries EXCEPT ![h] = 0]
    /\ fFetched' = [fFetched EXCEPT ![h] = Absent]
    /\ Release(h)

\* a coroutine of handle h is called; a handle without a session given to it
\* makes one
FleetCall(h, o, r) ==
    /\ fPc[h] # "wait"
    /\ fInjected[h] => fShared = "open"
    /\ fPc' = [fPc EXCEPT ![h] = "wait"]
    /\ fOp' = [fOp EXCEPT ![h] = o]
    /\ fKey' = [fKey EXCEPT ![h] = IF o = "setup" THEN FleetKey(h) ELSE ""]
    /\ fRetries' = [fRetries EXCEPT ![h] = r]
    /\ fEp' = [fEp EXCEPT ![h] = FirstEp(o)]
    /\ fTry' = [fTry EXCEPT ![h] = 0]
    /\ fFetched' = [fFetched EXCEPT ![h] = Absent]
    /\ fResult' = [fResult EXCEPT ![h] = "none"]
    /\ fOwn' = [fOwn EXCEPT ![h] = ~fInjected[h]]
    /\ UNCHANGED <<hubVars, convVars, calVars, modVars, fIp, fInjected, fShared, fClosedBy,
                   fCfg, fMac, fInfo>>

\* an attempt of h fails: retry, or raise ConnectionError
FleetFail(h) ==
    /\ fPc[h] = "wait"
    /\ IF Exhausted(fTry[h] + 1, fRetries[h])
       THEN /\ FleetFinish(h, "ConnectionError")
            /\ fInfo' = [fInfo EXCEPT ![h] = InfoAfterGiveUp(fOp[h], fEp[h], @)]
       ELSE /\ fTry' = [fTry EXCEPT ![h] = @ + 1]
            /\ UNCHANGED <<fPc, fResult, fEp, fRetries, fFetched, fOwn,
                           fShared, fClosedBy, fInfo>>
    /\ UNCHANGED <<hubVars, convVars, calVars, modVars, fIp, fInjected, fCfg, fOp, fKey, fMac>>

\* the device h talks to answers its request with 2xx
FleetAnswer(h) ==
    LET d == Target(h, fIp, fInjected)
        m == ModifyDeviceConfig(fCfg[d], fKey[h], FleetUrl)
    IN  /\ fPc[h] = "wait"
        /\ CASE fEp[h] = InfoEp /\ fOp[h] = "retrieve_mac_address" ->
                  /\ fMac' = [fMac EXCEPT ![h] = MacAddress(FleetMac(d))]
                  /\ FleetFinish(h, "True")
                  /\ UNCHANGED <<fCfg, fInfo>>
             [] fEp[h] = CfgGetEp /\ m.kind = "blob" ->
                  /\ fFetched' = [fFetched EXCEPT ![h] = Some(fCfg[d])]
                  /\ FleetIssue(h, CfgSetEp)
                  /\ UNCHANGED <<fCfg, fMac, fInfo>>
             [] fEp[h] = CfgGetEp /\ m.kind # "blob" ->
                  /\ FleetFinish(h, "False")
                  /\ UNCHANGED <<fCfg, fMac, fInfo>>
             [] fEp[h] = CfgSetEp ->
                  /\ fCfg' = [fCfg EXCEPT ![d] =
                        ModifyDeviceConfig(The(fFetched[h]), fKey[h], FleetUrl).blob]
                  /\ FleetIssue(h, InfoEp)
                  /\ UNCHANGED <<fFetched, fMac, fInfo>>
             [] fEp[h] = InfoEp /\ fOp[h] = "setup" ->
                  /\ fInfo' = [fInfo EXCEPT ![h] = Some(FleetInfo(d))]
                  /\ FleetFinish(h, "True")
                  /\ UNCHANGED <<fCfg, fMac>>
             [] OTHER ->
                  /\ FleetFinish(h, "True")
                  /\ UNCHANGED <<fCfg, fMac, fInfo>>
        /\ UNCHANGED <<hubVars, convVars, calVars, modVars, fIp, fInjected, fOp, fKey>>

\* the caller leaves the "async with" block of its session, no call of a
\* handle built on that session being under way
CallerCloses ==
    /\ fShared = "open"
    /\ \A h \in Handles : fInjected[h] => fPc[h] # "wait"
    /\ fShared' = "closed"
    /\ fClosedBy' = "caller"
    /\ UNCHANGED <<hubVars, convVars, calVars, modVars, fIp, fInjected, fOwn, fCfg, fPc, fOp,
                   fEp, fKey, fRetries, fTry, fFetched, fResult, fMac, fInfo>>

FleetInit ==
    /\ HubIdle
    /\ ConvIdle
    /\ CalIdle
    /\ ModIdle
    /\ fIp \in {ips \in [Handles -> Devices] : ips["hub"] = "d1"}
    /\ fInjected \in [Handles -> BOOLEAN]
    /\ FleetFresh

FleetNext ==
    \/ \E h \in Handles, o \in FleetOps, r \in {0, 1} : FleetCall(h, o, r)
    \/ \E h \in Handles : FleetFail(h)
    \/ \E h \in Handles : FleetAnswer(h)
    \/ CallerCloses

SpecFleet == FleetInit /\ [][FleetNext]_vars

\* ================================================= calibration transforms
\* vh400_transform(x) and therm200_transform(x) take any Python object,
\* convert it with float(x) and return a float, or None when the
\* conversion raises.  A number is a decimal m / 10^e with at most three
\* places; a returned float is the exact fraction n / d in lowest terms.
MaxVolts == 4

Abs(i) == IF i < 0 THEN -i ELSE i

RECURSIVE Gcd(_, _)
Gcd(a, b) == IF b = 0 THEN a ELSE Gcd(b, a % b)

\* n / d, d > 0, in lowest terms
Rat(n, d) == LET g == Gcd(Abs(n), d) IN [n |-> n \div g, d |-> d \div g]

\* a <= b for fractions
RatLe(a, b) == a.n * b.d <= b.n * a.d

RECURSIVE Pow10(_)
Pow10(e) == IF e = 0 THEN 1 ELSE 10 * Pow10(e - 1)

\* ---- the objects passed to the transforms
IntValue(i) == [type |-> "int", m |-> i, e |-> 0]

FloatValue(m, e) == [type |-> "float", m |-> m, e |-> e]

StrValue(chars) == [type |-> "str", chars |-> chars]

BoolValue(b) == [type |-> "bool", b |-> b]

OtherTypes == {"NoneType", "list", "dict", "tuple"}

OtherValue(t) == [type |-> t]

\* the voltages of the tests and a grid of them: every millivolt about the
\* noise floor, then every 10 mV up to MaxVolts
Numbers ==
    { IntValue(i) : i \in {-1000, -1, 0, 1, 2, 3, 10, 1000} }
    \cup { FloatValue(m, 1) : m \in {5, 12, 15, 26, 35} }
    \cup { FloatValue(m, 3) : m \in 0..20 }
    \cup { FloatValue(10 * k, 3) : k \in (-5)..(100 * MaxVolts) }

Strings ==
    { StrValue(s) : s \in
        { <<"1", ".", "5">>, <<"0", ".", "5">>, <<"2">>, <<"-", "1">>,
          <<"0", ".", "0", "0", "5">>, <<"3", ".", "0">>,
          <<"i", "n", "v", "a", "l", "i", "d">>, <<>>, <<"1", ".", "2", ".", "3">>,
          <<"-">>, <<".">> } }

Values ==
    Numbers \cup Strings \cup {BoolValue(b) : b \in BOOLEAN}
    \cup {OtherValue(t) : t \in OtherTypes}

\* ---- float(x)
DigitChars == <<"0", "1", "2", "3", "4", "5", "6", "7", "8", "9">>

IsDigit(c) == \E i \in 1..10 : DigitChars[i] = c

DigitVal(c) == (CHOOSE i \in 1..10 : DigitChars[i] = c) - 1

RECURSIVE ParseDigits(_, _)
ParseDigits(chars, acc) ==
    IF chars = <<>> THEN acc
    ELSE IF Head(chars) = "." THEN ParseDigits(Tail(chars), acc)
    ELSE ParseDigits(Tail(chars), 10 * acc + DigitVal(Head(chars)))

\* float(str): an optional sign, digits with at most one point among them;
\* Absent when the string is not of that form (ValueError)
ParseFloat(chars) ==
    LET signed == chars # <<>> /\ Head(chars) \in {"-", "+"}
        body == IF signed THEN Tail(chars) ELSE chars
        points == {i \in 1..Len(body) : body[i] = "."}
        digits == {i \in 1..Len(body) : IsDigit(body[i])}
    IN  IF \/ digits = {}
           \/ Cardinality(points) > 1
           \/ points \cup digits # 1..Len(body)
        THEN Absent
        ELSE LET e == IF points = {} THEN 0
                      ELSE Len(body) - (CHOOSE i \in points : TRUE)
                 m == ParseDigits(body, 0)
             IN  Some([m |-> IF signed /\ Head(chars) = "-" THEN -m ELSE m,
                       e |-> e])

NoNumber == [m |-> 0, e |-> 0]

\* float(value): the number, or the exception float raises
Float(value) ==
    CASE value.type \in {"int", "float"} ->
            [exc |-> "none", val |-> [m |-> value.m, e |-> value.e]]
      [] value.type = "bool" ->
            [exc |-> "none", val |-> [m |-> IF value.b THEN 1 ELSE 0, e |-> 0]]
      [] value.type = "str" ->
            IF ParseFloat(value.chars) = Absent
            THEN [exc |-> "ValueError", val |-> NoNumber]
            ELSE [exc |-> "none", val |-> The(ParseFloat(value.chars))]
      [] OTHER -> [exc |-> "TypeError", val |-> NoNumber]

\* what a transform hands back: a float or None, or an exception
Returns(out) == [out |-> out, err |-> "none"]

\* variant: only ValueError is caught
OnConversionErrorTypeEscapes(exc) ==
    IF exc = "TypeError" THEN [out |-> Absent, err |-> exc]
    ELSE Returns(Absent)

\* except (ValueError, TypeError): return None
OnConversionError(exc) == Returns(Absent)

\* ---- vh400_transform
\* the noise floor and the breakpoints (millivolts, percent)
NoiseFloor == 10

Vh400Table ==
    << <<0, 0>>, <<1100, 10>>, <<1300, 15>>, <<1820, 40>>, <<2200, 50>>,
       <<3000, 100>> >>

\* the value at x of the line through two breakpoints
Interpolate(x, lo, hi) ==
    Rat(lo[2] * (hi[1] - lo[1]) + (x - lo[1]) * (hi[2] - lo[2]),
        hi[1] - lo[1])

MilliVolts(val) == val.m * Pow10(3 - val.e)

\* variant: the last segment is continued above its upper breakpoint
Vh400CurveNoCeiling(x) ==
    IF x < NoiseFloor THEN Rat(0, 1)
    ELSE LET i == CHOOSE j \in 1..(Len(Vh400Table) - 1) :
                     /\ Vh400Table[j][1] <= x
                     /\ j < Len(Vh400Table) - 1 => x < Vh400Table[j + 1][1]
         IN  Interpolate(x, Vh400Table[i], Vh400Table[i + 1])

Vh400Curve(x) ==
    IF x < NoiseFloor THEN Rat(0, 1)
    ELSE IF x >= Vh400Table[Len(Vh400Table)][1] THEN Rat(100, 1)
    ELSE LET i == CHOOSE j \in 1..(Len(Vh400Table) - 1) :
                     Vh400Table[j][1] <= x /\ x < Vh400Table[j + 1][1]
         IN  Interpolate(x, Vh400Table[i], Vh400Table[i + 1])

Vh400Transform(value) ==
    LET f == Float(value)
    IN  IF f.exc # "none" THEN OnConversionError(f.exc)
        ELSE Returns(Some(Vh400Curve(MilliVolts(f.val))))

\* ---- therm200_transform
\* variant: readings below 0 V are taken as 0 V
Therm200LineClamped(val) ==
    IF val.m < 0 THEN Rat(-40, 1)
    ELSE Rat(4167 * val.m - 4000 * Pow10(val.e), 100 * Pow10(val.e))

\* 41.67 * v - 40 for v = m / 10^e
Therm200Line(val) ==
    Rat(4167 * val.m - 4000 * Pow10(val.e), 100 * Pow10(val.e))

Therm200Transform(value) ==
    LET f == Float(value)
    IN  IF f.exc # "none" THEN OnConversionError(f.exc)
        ELSE Returns(Some(Therm200Line(f.val)))

\* ---- calls
CalInit ==
    /\ HubIdle
    /\ ConvIdle
    /\ FleetIdle
    /\ ModIdle
    /\ tfValue \in Values
    /\ tfCall = "none"
    /\ tfOut = Absent
    /\ tfErr = "none"

CallVh400 ==
    /\ tfCall' = "vh400_transform"
    /\ tfOut' = Vh400Transform(tfValue).out
    /\ tfErr' = Vh400Transform(tfValue).err
    /\ UNCHANGED <<hubVars, convVars, fleetVars, modVars, tfValue>>

CallTherm200 ==
    /\ tfCall' = "therm200_transform"
    /\ tfOut' = Therm200Transform(tfValue).out
    /\ tfErr' = Therm200Transform(tfValue).err
    /\ UNCHANGED <<hubVars, convVars, fleetVars, modVars, tfValue>>

CalNext == CallVh400 \/ CallTherm200

SpecCal == CalInit /\ [][CalNext]_vars

\* ================================== _modify_device_config called directly
\* The tests call basic_hub._modify_device_config(config_data, key, url) on
\* blobs of their own making: the device's configurations, and blobs whose
\* endpoint ids are neither dense nor in order.
ModifyBlobs ==
    DeviceConfigs
    \cup { Blob(EndpointList(<<VegeCloud(3), CustomServer(1)>>),
                Some("oldkey"), Some(HubCfg(Absent, Absent))),
           Blob(EndpointList(<<CustomServer(5)>>), Absent, Absent),
           Blob(EndpointList(<<VegeCloud(1), CustomServer(2)>>),
                Some("oldkey"), Some(HubCfg(Absent, Absent))),
           Blob(NullEndpoints, Absent, Some(HubCfg(Absent, Absent))) }

ModInit ==
    /\ HubIdle
    /\ ConvIdle
    /\ FleetIdle
    /\ CalIdle
    /\ mcBlob \in ModifyBlobs
    /\ mcKey \in ApiKeys
    /\ mcUrl \in ServerUrls
    /\ mcDone = FALSE
    /\ mcOut = [kind |-> "none", blob |-> NoneBlob]

CallModifyDeviceConfig ==
    /\ ~mcDone
    /\ mcDone' = TRUE
    /\ mcOut' = ModifyDeviceConfig(mcBlob, mcKey, mcUrl)
    /\ UNCHANGED <<hubVars, convVars, fleetVars, calVars, mcBlob, mcKey, mcUrl>>

ModNext == CallModifyDeviceConfig

SpecMod == ModInit /\ [][ModNext]_vars

\* ================================================================ claims
\* every attempt issued for the request in flight, or last in flight, failed
AllAttemptsFailed == sent = attempt

\* the request last in flight got a 2xx response
LastRequestAnswered == pc = "done" /\ attempt < sent

\* the effective budget of the spec: a retries argument of 0 still buys 1 try
Budget(r) == Max(1, r)

\* ---- C1
\* C1, as stated: the attempts made for a request are never fewer than 1
\* and never more than the configured budget.
C1_AttemptsWithinBudget ==
    pc # "idle" => (1 <= sent /\ sent <= Budget(retries))

\* C1, amended: the attempts made for a request with retries = r are never
\* fewer than 1 and never more than r + 1 (one try plus r retries).
C1_AttemptsWithinRetriesPlusOne ==
    pc # "idle" => (1 <= sent /\ sent <= retries + 1)

\* a call with a budget left over that used all its r + 1 attempts
C1_Witness ==
    /\ pc = "done"
    /\ result = "ConnectionError"
    /\ retries = 2
    /\ sent = 3

\* ---- C2
\* C2, as stated: a call with retries 0 or 1 whose every attempt fails makes
\* exactly one attempt before ConnectionError surfaces.
C2_OneAttemptForZeroOrOne ==
    (pc = "done" /\ result = "ConnectionError" /\ Len(reqLog) = 1
        /\ retries \in {0, 1})
    => sent = 1

\* C2, amended: against a device failing every attempt, retries=0 makes
\* exactly one attempt and retries=1 exactly two before ConnectionError.
C2_AttemptsForZeroAndOne ==
    (pc = "done" /\ result = "ConnectionError" /\ Len(reqLog) = 1)
    => /\ retries = 0 => sent = 1
       /\ retries = 1 => sent = 2

C2_Witness ==
    /\ pc = "done"
    /\ result = "ConnectionError"
    /\ Len(reqLog) = 1
    /\ retries = 1
    /\ AllAttemptsFailed
    /\ script = Absent

\* ---- C3
\* the request last in flight began on a transport that fails two attempts
\* and answers every later one
FailsTwiceThenAnswers == before = Some(2)

\* C3, as stated: on a transport that fails twice and then answers,
\* retries=1 raises ConnectionError after only 1 attempt and retries=3
\* succeeds.
C3_RetriesOneStopsAfterOne ==
    (pc = "done" /\ FailsTwiceThenAnswers)
    => /\ retries = 1 => (result = "ConnectionError" /\ sent = 1)
       /\ retries = 3 => LastRequestAnswered

\* C3, amended: on that transport retries=1 raises ConnectionError after 2
\* attempts, both failed, and retries=3 succeeds, on its third attempt.
C3_RetriesOneStopsAfterTwo ==
    (pc = "done" /\ FailsTwiceThenAnswers)
    => /\ retries = 1 => (result = "ConnectionError" /\ sent = 2
                            /\ AllAttemptsFailed)
       /\ retries = 3 => (LastRequestAnswered /\ sent = 3
                            /\ result # "ConnectionError")

C3_Witness ==
    /\ pc = "done"
    /\ FailsTwiceThenAnswers
    /\ retries = 3
    /\ op = "set_actuator"
    /\ result = "True"
    /\ sent = 3

\* ---- C4
\* C4: a call whose request had all its attempts fail, by status or by
\* connection error, raises ConnectionError and returns nothing; and
\* set_actuator returns true once an attempt is answered with 2xx.
C4_FailureSurfaces ==
    pc = "done"
    => /\ op \in Ops
       /\ AllAttemptsFailed => result = "ConnectionError"
       /\ (op = "set_actuator" /\ ~AllAttemptsFailed) => result = "True"

\* setup gives up on its info refresh after connection errors
C4_Witness ==
    /\ pc = "done"
    /\ op = "setup"
    /\ ep = InfoEp
    /\ AllAttemptsFailed
    /\ retries = 1
    /\ lastErr = "transport"
    /\ result = "ConnectionError"

\* ---- C5
\* C5: a setup that repeats, with the same (apiKey, serverUrl), the setup
\* before it on a new-schema device leaves the device configuration as the
\* first call left it (which is what the second call fetched), with as many
\* endpoints.
C5_SetupTwiceSameConfig ==
    \A f \in fetched :
        (WroteConfig /\ repeat /\ f.endpoints.kind = "list")
        => /\ devCfg = f
           /\ Len(devCfg.endpoints.items) = Len(f.endpoints.items)

C5_Witness ==
    /\ WroteConfig
    /\ repeat
    /\ result = "True"
    /\ \E f \in fetched : f.endpoints.kind = "list" /\ Len(f.endpoints.items) = 3

\* ---- C6
\* C6: in the new-schema path the blob written differs from the blob fetched
\* in the HomeAssistant endpoint alone: the other endpoints are the same, at
\* the same positions; an existing HomeAssistant endpoint is replaced where
\* it stood and keeps its id, otherwise one endpoint is appended; api_key,
\* hub and the other top-level keys are as fetched.
C6_NewSchemaFrame ==
    \A f \in fetched, w \in written :
        f.endpoints.kind = "list"
        => LET old == f.endpoints.items
               new == w.endpoints.items
           IN  /\ w.isNone = f.isNone
               /\ w.api_key = f.api_key
               /\ w.hub = f.hub
               /\ w.misc = f.misc
               /\ w.endpoints.kind = "list"
               /\ Len(new) >= Len(old)
               /\ \A i \in 1..Len(old) :
                     IF old[i].name = HA_NAME
                     THEN new[i].name = HA_NAME /\ new[i].id = old[i].id
                     ELSE new[i] = old[i]
               /\ IF \E i \in 1..Len(old) : old[i].name = HA_NAME
                  THEN Len(new) = Len(old)
                  ELSE Len(new) = Len(old) + 1 /\ new[Len(new)].name = HA_NAME

\* the HomeAssistant endpoint stood between two others, under id 2
C6_Witness ==
    \E f \in fetched, w \in written :
        /\ f.endpoints.kind = "list"
        /\ Len(f.endpoints.items) = 3
        /\ f.endpoints.items[2].name = HA_NAME
        /\ w.endpoints.items[2].config.api_key \in ApiKeys
        /\ f.api_key # Absent

\* ---- C7
\* C7: when the fetched blob is of neither schema (endpoints is no list and
\* api_key or hub is missing) setup returns false and has sent no request
\* but the fetch.
C7_InvalidSchemaNoWrite ==
    \A f \in fetched :
        (f # EmptyBlob /\ ~f.isNone /\ f.endpoints.kind # "list"
            /\ (f.api_key = Absent \/ f.hub = Absent))
        => /\ pc = "done"
           /\ result = "False"
           /\ reqLog = <<CfgGetEp>>

\* api_key without hub
C7_Witness ==
    \E f \in fetched :
        /\ f.api_key # Absent
        /\ f.hub = Absent
        /\ f.endpoints.kind # "list"
        /\ pc = "done"

\* ---- C8
\* C8: when the config fetch is answered with a falsy blob (no body, or {})
\* setup returns false and has sent no request but the fetch.
C8_FalsyBlobStops ==
    \A f \in fetched :
        (f.isNone \/ f = EmptyBlob)
        => /\ pc = "done"
           /\ result = "False"
           /\ reqLog = <<CfgGetEp>>

C8_Witness == fetched = Some(NoneBlob) /\ pc = "done" /\ retries = 1 /\ attempt = 1

\* ---- C9
\* C9: setup ends with true, false or ConnectionError, the last only after
\* all attempts of a request failed; a fetched blob that is falsy or of
\* neither schema ends it with false, never with an exception.
C9_SetupBooleanOrConnectionError ==
    (pc = "done" /\ op = "setup")
    => /\ result \in {"True", "False", "ConnectionError"}
       /\ result = "ConnectionError" => AllAttemptsFailed
       /\ \A f \in fetched :
             (f.isNone \/ f = EmptyBlob
                \/ (f.endpoints.kind # "list"
                      /\ (f.api_key = Absent \/ f.hub = Absent)))
             => result = "False"

\* hub without api_key, endpoints null
C9_Witness ==
    /\ pc = "done"
    /\ op = "setup"
    /\ result = "False"
    /\ \E f \in fetched : f.endpoints.kind = "null" /\ f.hub = Absent

C11_SetupCachesHub ==
    (pc = "done" /\ op = "setup" /\ result = "True")
    => /\ reqLog = <<CfgGetEp, CfgSetEp, InfoEp>>
       /\ infoBody # Absent
       /\ \A b \in infoBody :
             /\ info = (IF b.isNone THEN Absent ELSE b.hub)
             /\ \A h \in (IF b.isNone THEN Absent ELSE b.hub) :
                   /\ NumSensors = h.num_channels
                   /\ NumActuators = h.num_actuators
                   /\ SwVersion = h.version
                   /\ IsAc = {v # 0 : v \in h.is_ac}

\* a new-schema device and a complete hub object
C11_Witness ==
    /\ pc = "done"
    /\ op = "setup"
    /\ result = "True"
    /\ \E f \in fetched : f.endpoints.kind = "list"
    /\ \E b \in infoBody : b.hub = Some(FullHub)
    /\ NumSensors = Some(4)
    /\ NumActuators = Some(2)

\* ---- C12
\* C12: when setup's config write was answered and every attempt of the info
\* refresh after it failed, setup raises ConnectionError and _info reads
\* unset, whether or not it was set when the call began.
C12_RefreshGivenUpUnsetsInfo ==
    (pc = "done" /\ op = "setup" /\ ep = InfoEp /\ AllAttemptsFailed)
    => /\ result = "ConnectionError"
       /\ info = Absent
       /\ devCfg = The(written)

\* _info had been cached by an earlier setup
C12_Witness ==
    /\ pc = "done"
    /\ op = "setup"
    /\ ep = InfoEp
    /\ AllAttemptsFailed
    /\ hadInfo
    /\ repeat
    /\ retries = 1

\* ---- C13
\* retrieve_mac_address has returned or raised
MacCallDone == pc = "done" /\ op = "retrieve_mac_address"

\* the 2xx info response of this call carried a non-empty wifi.mac_addr
GotMac == \E b \in infoBody : ~b.isNone /\ b.mac # Absent /\ b.mac # Some(<<>>)

C13_Outcome ==
    MacCallDone
    => /\ result \in {"True", "False", "ConnectionError"}
       /\ result = "True" <=> GotMac
       /\ result = "False" <=> (infoBody # Absent /\ ~GotMac)
       /\ result = "ConnectionError" <=> AllAttemptsFailed

C13_MacKept ==
    (op' = "retrieve_mac_address" /\ result' # "True") => mac' = mac

C14_Outcome ==
    (pc = "done" /\ op = "actuator_states")
    => /\ result \in {"actuators", "AttributeError", "ConnectionError"}
       /\ result = "actuators" <=> returned # Absent
       /\ result = "AttributeError" <=> (LastRequestAnswered /\ returned = Absent)
       /\ result = "ConnectionError" <=> AllAttemptsFailed

\* a step of actuator_states in which no attempt fails ends the call, with
\* no further attempt
C14_NotRetried ==
    (pc = "wait" /\ op = "actuator_states" /\ attempt' = attempt)
    => (pc' = "done" /\ sent' = sent)

\* C14: actuator_states returns the list under "actuators" of the 2xx
\* response; a 2xx response without that key raises AttributeError, which is
\* not ConnectionError, ends the call without another attempt, and returns
\* no list, an empty one included.
C14_ActuatorStates == []C14_Outcome /\ [][C14_NotRetried]_vars

\* AttributeError after one failed attempt and one answered
C14_Witness ==
    /\ pc = "done"
    /\ op = "actuator_states"
    /\ result = "AttributeError"
    /\ returned = Absent
    /\ attempt = 1
    /\ sent = 2

\* ---- C17
\* retrieve_mac_address has returned true
MacRetrieved == MacCallDone /\ result = "True"

\* the hexadecimal digits of a reported address, in upper case
UpperHex(raw) ==
    LET hex == SelectSeq(raw, LAMBDA ch : ch \notin {":", "-"})
    IN  [i \in 1..Len(hex) |->
            CASE hex[i] = "a" -> "A" [] hex[i] = "b" -> "B" [] OTHER -> hex[i]]

\* C17, as stated: the cached address is the colon-separated upper-case form
\* of the reported one.
C17_ColonSeparated ==
    MacRetrieved => \A b \in infoBody : mac = Colonize(UpperHex(The(b.mac)))

\* C17, amended: after a successful retrieve_mac_address the cached address
\* is the reported wifi.mac_addr in upper case with its separators removed
\* (no colons), and the simple MAC is the same digits in lower case.
C17_UpperNoSeparators ==
    MacRetrieved
    => \A b \in infoBody :
          /\ mac = UpperHex(The(b.mac))
          /\ \A i \in 1..Len(mac) : mac[i] \notin {":", "-", "a", "b"}
          /\ Len(SimpleMacAddress) = Len(mac)
          /\ \A i \in 1..Len(mac) :
                /\ SimpleMacAddress[i] \notin {":", "-", "A", "B"}
                /\ SimpleMacAddress[i]
                     = (CASE mac[i] = "A" -> "a" [] mac[i] = "B" -> "b"
                          [] OTHER -> mac[i])

\* the device reported "Ab:01"
C17_Witness ==
    /\ MacRetrieved
    /\ \E b \in infoBody : b.mac = Some(<<"A", "b", ":", "0", "1">>)
    /\ mac = <<"A", "B", "0", "1">>
    /\ SimpleMacAddress = <<"a", "b", "0", "1">>

\* ---- C18
\* the "sensors" list of the payload, empty when the payload has none
SensorsOf(p) == IF p.sensors = Absent THEN <<>> ELSE The(p.sensors)

\* the slots of the payload that carry a sample
ReportingSlots(p) ==
    IF p.mac = Absent THEN {}
    ELSE { SensorsOf(p)[i].slot : i \in
             {j \in 1..Len(SensorsOf(p)) : SensorsOf(p)[j].samples # <<>>} }

\* the v of the last sample of a slot
LastValueOf(p, slot) ==
    LET s == CHOOSE x \in {SensorsOf(p)[i] : i \in 1..Len(SensorsOf(p))} :
                 x.slot = slot
    IN  s.samples[Len(s.samples)].v

\* the converter returned a mapping
Converted(call) == cvCall = call /\ cvErr = "none"

\* C18: update_data_to_latest_dict returns one entry for each slot of the
\* payload that carries samples, under the key lower-case MAC, "_", slot
\* number, whose value is the v of the last sample of the slot's list
\* whatever the samples' times; without sensors, or with an empty sensors
\* list, the mapping is empty.
C18_LatestValues ==
    /\ (cvCall = "latest" /\ cvErr # "none")
          => (cvErr = "IndexError" /\ \E i \in 1..Len(SensorsOf(cvPayload)) :
                 SensorsOf(cvPayload)[i].samples = <<>>)
    /\ Converted("latest")
          => /\ \A slot \in ReportingSlots(cvPayload) :
                   [key |-> [prefix |-> <<"a", "b", "0", "1">>, idx |-> slot],
                    v |-> LastValueOf(cvPayload, slot)] \in cvOut
             /\ Cardinality(cvOut) = Cardinality(ReportingSlots(cvPayload))
             /\ SensorsOf(cvPayload) = <<>> => cvOut = {}

\* five slots of two samples each, the later sample listed first
C18_Witness ==
    /\ Converted("latest")
    /\ Len(SensorsOf(cvPayload)) = 5
    /\ \A i \in 1..5 : Len(SensorsOf(cvPayload)[i].samples) = 2
    /\ [key |-> [prefix |-> <<"a", "b", "0", "1">>, idx |-> 5], v |-> 50]
          \in cvOut

\* ---- C19
\* update_data_to_ha_dict(payload, 4, 2, False) has returned, the payload
\* carrying samples in each of its seven slots
SevenSlots ==
    /\ Converted("ha")
    /\ cvSensors = 4
    /\ cvActuators = 2
    /\ ~cvAll
    /\ ReportingSlots(cvPayload) = 1..7

\* the mapping has name_{i} at the value of the slot
Maps(name, i, slot) ==
    [key |-> [prefix |-> <<name>>, idx |-> i],
     v |-> LastValueOf(cvPayload, slot)] \in cvOut

\* C19, as stated: slots 1-4 are analog_0..3, the last sensor slot (4) is
\* also the battery, slots 5-6 are actuator_0..1.
C19_BatteryIsLastSensor ==
    SevenSlots
    => /\ \A i \in 1..4 : Maps("analog", i - 1, i)
       /\ Maps("battery", 0, 4)
       /\ Maps("actuator", 0, 5)
       /\ Maps("actuator", 1, 6)

\* C19, amended: update_data_to_ha_dict(payload, 4, 2, False) on a 7-slot
\* payload maps slots 1-4 to analog_0..analog_3, slot 5 to battery and
\* slots 6-7 to actuator_0..actuator_1, and has no other key.
C19_BatteryIsSlotFive ==
    SevenSlots
    => /\ \A i \in 1..4 : Maps("analog", i - 1, i)
       /\ Maps("battery", 0, 5)
       /\ Maps("actuator", 0, 6)
       /\ Maps("actuator", 1, 7)
       /\ Cardinality(cvOut) = 7

C19_Witness ==
    /\ SevenSlots
    /\ Maps("battery", 0, 5)
    /\ LastValueOf(cvPayload, 5) = 50
    /\ Len(SensorsOf(cvPayload)[5].samples) = 1

\* ---- C20
\* C20: not in all-actuator mode and with N sensor channels, each slot that
\* carries samples is filed as analog_{i-1} for i <= N, battery for N+1 and
\* actuator_{j-1} for N+1+j, and the mapping has no other entry: without a
\* slot beyond N+1 it has no actuator key, whatever num_actuators is.
C20_SlotKeys ==
    (Converted("ha") /\ ~cvAll)
    => /\ \A slot \in ReportingSlots(cvPayload) :
             /\ slot <= cvSensors => Maps("analog", slot - 1, slot)
             /\ slot = cvSensors + 1 => Maps("battery", 0, slot)
             /\ slot > cvSensors + 1
                   => Maps("actuator", slot - cvSensors - 2, slot)
       /\ Cardinality(cvOut) = Cardinality(ReportingSlots(cvPayload))
       /\ (\A slot \in ReportingSlots(cvPayload) : slot <= cvSensors + 1)
             => \A e \in cvOut : e.key.prefix # <<"actuator">>

\* a hub with an actuator whose payload stops at the battery slot
C20_Witness ==
    /\ Converted("ha")
    /\ ~cvAll
    /\ cvSensors = 4
    /\ cvActuators = 1
    /\ ReportingSlots(cvPayload) = 1..5
    /\ Maps("battery", 0, 5)
    /\ \A e \in cvOut : e.key.prefix # <<"actuator">>

\* ---- C15
\* this step is a step of a call of handle h
Acting(h) == <<fPc[h], fEp[h], fTry[h]>>' # <<fPc[h], fEp[h], fTry[h]>>

\* no other handle is at the device of h
AloneAtDevice(h) == \A g \in Handles \ {h} : fIp[g] # fIp[h]

\* a step of another handle leaves the cache of h, and the configuration of
\* the device only h is at, as they were
C15_Frame ==
    \A h \in Handles :
        ~Acting(h)
        => /\ fMac'[h] = fMac[h]
           /\ fInfo'[h] = fInfo[h]
           /\ AloneAtDevice(h) => fCfg'[fIp[h]] = fCfg[fIp[h]]

\* the api keys the configuration of device d carries
KeysIn(d) ==
    {k \in fCfg[d].api_key : TRUE}
    \cup {fCfg[d].endpoints.items[i].config.api_key :
            i \in 1..Len(fCfg[d].endpoints.items)}

\* what h has cached it got from its own device, and the device only h is
\* at was given no key but the key of h
C15_OwnDevice ==
    \A h \in Handles :
        /\ fMac[h] \in {<<>>, IF fIp[h] = "d1" THEN <<"A", "B", "0", "1">>
                                               ELSE <<"0", "1", "A", "B">>}
        /\ fInfo[h] \in {Absent, IF fIp[h] = "d1" THEN Some(FullHub)
                                                  ELSE Some(PartialHub)}
        /\ AloneAtDevice(h)
              => KeysIn(fIp[h]) \subseteq {"oldkey", "key1",
                                            IF h = "hub" THEN "KEY_A" ELSE "KEY_B"}

\* C15: whatever the interleaving of the calls on two handles, a handle's
\* cached MAC, info and derived fields hold only what its own device
\* reported and change only in steps of its own calls, and the configuration
\* of its device is changed by no call on the other handle, also when both
\* handles were given the one session of the caller.
C15_HandlesIndependent == []C15_OwnDevice /\ [][C15_Frame]_vars

\* both handles on the caller's session, each at its own device and each set
\* up, a later call of one of them under way
C15_Witness ==
    /\ \A h \in Handles : fInjected[h]
    /\ fIp["hub"] # fIp["bad_hub"]
    /\ fInfo["hub"] = Some(FullHub)
    /\ fInfo["bad_hub"] = Some(PartialHub)
    /\ "KEY_A" \in KeysIn("d1")
    /\ "KEY_B" \in KeysIn("d2")
    /\ fMac["bad_hub"] = <<"0", "1", "A", "B">>
    /\ fPc["hub"] = "wait"
    /\ fPc["bad_hub"] = "done"

C21_AllActuators ==
    (Converted("ha") /\ cvAll)
    => /\ \A slot \in ReportingSlots(cvPayload) :
             Maps("actuator", slot - 1, slot)
       /\ \A e \in cvOut :
             /\ e.key.prefix = <<"actuator">>
             /\ e.key.idx + 1 \in ReportingSlots(cvPayload)

\* update_data_to_ha_dict(payload, 0, 4, True) on a payload of four slots
C21_Witness ==
    /\ Converted("ha")
    /\ cvAll
    /\ cvSensors = 0
    /\ cvActuators = 4
    /\ ReportingSlots(cvPayload) = 1..4
    /\ Maps("actuator", 0, 1)
    /\ Maps("actuator", 3, 4)
    /\ \A e \in cvOut : e.key # [prefix |-> <<"actuator">>, idx |-> 4]

\* ---- C22
\* a slot of the payload whose samples list is empty
EmptySlots(p) ==
    { SensorsOf(p)[i].slot : i \in
        {j \in 1..Len(SensorsOf(p)) : SensorsOf(p)[j].samples = <<>>} }

\* the slot a key of the mapping stands for
SlotOfKey(k, n, allAct) ==
    IF allAct THEN k.idx + 1
    ELSE IF k.prefix = <<"analog">> THEN k.idx + 1
    ELSE IF k.prefix = <<"battery">> THEN n + 1
    ELSE k.idx + n + 2

\* C22: update_data_to_ha_dict returns a mapping for every payload, never
\* an exception; a slot whose samples list is empty has no entry; and when
\* the sensors list is missing or empty, or no slot carries a sample, the
\* mapping is empty, so it has no battery key.
C22_AbsentDataSkipped ==
    cvCall = "ha"
    => /\ cvErr = "none"
       /\ \A e \in cvOut :
             SlotOfKey(e.key, cvSensors, cvAll) \notin EmptySlots(cvPayload)
       /\ ReportingSlots(cvPayload) = {} => cvOut = {}

\* a payload whose battery slot has no samples and whose other slots do
C22_Witness ==
    /\ Converted("ha")
    /\ ~cvAll
    /\ cvSensors = 4
    /\ EmptySlots(cvPayload) = {5}
    /\ ReportingSlots(cvPayload) = (1..7) \ {5}
    /\ Cardinality(cvOut) = 6

\* ---- C23
\* a string of digits with at most one point among them after an optional
\* sign
NumericLooking(chars) ==
    LET from == IF chars # <<>> /\ chars[1] \in {"-", "+"} THEN 2 ELSE 1
    IN  /\ \E i \in from..Len(chars) : chars[i] \notin {".", "-", "+"}
        /\ \A i \in from..Len(chars) :
              chars[i] \in {"0", "1", "2", "3", "4", "5", "6", "7", "8", "9", "."}
        /\ Cardinality({i \in from..Len(chars) : chars[i] = "."}) <= 1

\* the argument is a number, a boolean or a numeric-looking string
IsNumeric(value) ==
    \/ value.type \in {"int", "float", "bool"}
    \/ value.type = "str" /\ NumericLooking(value.chars)

\* a transform has been called and has come back
Transformed(f) == tfCall = f

\* C23: both transforms are total.  Called on a number, a numeric-looking
\* string or a boolean they return a number, True giving what 1 gives and
\* False what 0 gives; called on anything else (another string, None, a
\* list, a dict, a tuple) they return None; no call raises.
C23_TransformsTotal ==
    tfCall # "none"
    => /\ tfErr = "none"
       /\ IsNumeric(tfValue) <=> tfOut # Absent
       /\ (Transformed("vh400_transform") /\ tfValue.type = "bool")
             => tfOut = IF tfValue.b THEN Some([n |-> 100, d |-> 11])
                        ELSE Some([n |-> 0, d |-> 1])
       /\ (Transformed("therm200_transform") /\ tfValue.type = "bool")
             => tfOut = IF tfValue.b THEN Some([n |-> 167, d |-> 100])
                        ELSE Some([n |-> -40, d |-> 1])

\* therm200_transform({"key": "value"}) has returned None
C23_Witness ==
    /\ Transformed("therm200_transform")
    /\ tfValue = [type |-> "dict"]
    /\ tfOut = Absent
    /\ tfErr = "none"

\* ---- C24
\* the transform named f has returned from a call on a number
OnNumber(f) == Transformed(f) /\ tfValue.type \in {"int", "float"}

\* the number passed, in millivolts
PassedMilliVolts ==
    tfValue.m * (CASE tfValue.e = 0 -> 1000
                   [] tfValue.e = 1 -> 100
                   [] tfValue.e = 2 -> 10
                   [] OTHER -> 1)

\* the breakpoints of the claim: volts in thousandths, percent
C24_Breakpoints ==
    << <<0, 0>>, <<1100, 10>>, <<1300, 15>>, <<1820, 40>>, <<2200, 50>>,
       <<3000, 100>> >>

\* the fraction y lies on the line through breakpoints i and i + 1 at x
OnSegment(i, x, y) ==
    LET lo == C24_Breakpoints[i]
        hi == C24_Breakpoints[i + 1]
    IN  (y.n - lo[2] * y.d) * (hi[1] - lo[1]) = (x - lo[1]) * (hi[2] - lo[2]) * y.d

\* C24: vh400_transform of a number lies in [0, 100] and does not decrease
\* as the number grows; below 0.01, negative numbers among them, it is
\* exactly 0.0; from 3.0 up it is exactly 100.0; between 0.01 and 3.0 it
\* is the linear interpolation of (0, 0), (1.1, 10), (1.3, 15), (1.82, 40),
\* (2.2, 50), (3.0, 100), so f(1) = 100/11 = 9.0909.. and f(0.011) = 0.1.
C24_Vh400Curve ==
    OnNumber("vh400_transform")
    => /\ tfOut # Absent
       /\ LET x == PassedMilliVolts
              y == The(tfOut)
          IN  /\ 0 <= y.n /\ y.n <= 100 * y.d
              /\ x < 10 => y = [n |-> 0, d |-> 1]
              /\ x >= 3000 => y = [n |-> 100, d |-> 1]
              /\ \A i \in 1..5 :
                    (/\ 10 <= x
                     /\ C24_Breakpoints[i][1] <= x
                     /\ x <= C24_Breakpoints[i + 1][1]) => OnSegment(i, x, y)
              /\ x = 1000 => 90909 * y.d <= 10000 * y.n /\ 10000 * y.n < 90910 * y.d
              /\ x = 11 => y = [n |-> 1, d |-> 10]
              /\ \A w \in Numbers :
                    MilliVolts(w) >= x
                       => RatLe(y, The(Vh400Transform(w).out))

\* vh400_transform(1.5) = 15 + 25 * 0.2 / 0.52 = 320/13 = 24.615..
C24_Witness ==
    /\ OnNumber("vh400_transform")
    /\ PassedMilliVolts = 1500
    /\ tfOut = Some([n |-> 320, d |-> 13])

\* ---- C25
\* ten to the number of decimal places of the number passed
PassedScale ==
    CASE tfValue.e = 0 -> 1
      [] tfValue.e = 1 -> 10
      [] tfValue.e = 2 -> 100
      [] OTHER -> 1000

\* therm200_transform has returned the fraction n / d for the argument
Therm200Gives(value, n, d) ==
    (Transformed("therm200_transform") /\ tfValue = value)
    => tfOut = Some([n |-> n, d |-> d])

\* C25: therm200_transform of a number v is 41.67 * v - 40 for every v,
\* negative and large ones included: f(0) = -40, f(1) = 1.67,
\* f(-1) = -81.67, f(1000) = 41630, f(-1000) = -41710; a numeric string
\* gives what its number gives ("2" 43.34, "0.5" -19.165, "-1" -81.67).
C25_Therm200Linear ==
    /\ OnNumber("therm200_transform")
       => /\ tfOut # Absent
          /\ LET y == The(tfOut)
                 scale == 100 * PassedScale
             IN  /\ scale % y.d = 0
                 /\ y.n * (scale \div y.d) = 4167 * tfValue.m - 4000 * PassedScale
    /\ Therm200Gives([type |-> "int", m |-> 0, e |-> 0], -40, 1)
    /\ Therm200Gives([type |-> "int", m |-> 1, e |-> 0], 167, 100)
    /\ Therm200Gives([type |-> "int", m |-> -1, e |-> 0], -8167, 100)
    /\ Therm200Gives([type |-> "int", m |-> 1000, e |-> 0], 41630, 1)
    /\ Therm200Gives([type |-> "int", m |-> -1000, e |-> 0], -41710, 1)
    /\ Therm200Gives([type |-> "str", chars |-> <<"2">>], 2167, 50)
    /\ Therm200Gives([type |-> "str", chars |-> <<"0", ".", "5">>], -3833, 200)
    /\ Therm200Gives([type |-> "str", chars |-> <<"-", "1">>], -8167, 100)

\* therm200_transform(-1000) = -41710.0
C25_Witness ==
    /\ OnNumber("therm200_transform")
    /\ tfValue.m = -1000
    /\ tfValue.e = 0
    /\ tfOut = Some([n |-> -41710, d |-> 1])

\* ---- C26
\* the call before the one last run
CallBefore == lastCall.calls[1]

\* a call with retries=1 has returned or raised, the call before it having
\* been the same operation with retries=1, its last request sent to a
\* device about to fail two attempts and answer the later ones
SecondOfTwoCalls ==
    /\ pc = "done"
    /\ retries = 1
    /\ lastCall.calls # <<>>
    /\ CallBefore.op = op
    /\ CallBefore.retries = 1
    /\ CallBefore.before = Some(2)

\* C26: a call with retries=r makes one attempt and up to r retries.  On a
\* device whose next two responses are non-2xx and whose later ones are
\* 2xx, a call with retries=1 makes two attempts and raises
\* ConnectionError, both failing responses being used up; the same call
\* made again with retries=1 has its request answered with 2xx at the
\* first attempt and does not raise ConnectionError.
C26_RetriesPlusOneAttempts ==
    /\ lastCall.calls # <<>>
          => /\ CallBefore.sent <= CallBefore.retries + 1
             /\ CallBefore.result = "ConnectionError"
                   => CallBefore.sent = CallBefore.retries + 1
    /\ SecondOfTwoCalls
          => /\ CallBefore.result = "ConnectionError"
             /\ CallBefore.sent = 2
             /\ script = Some(0)
             /\ result # "ConnectionError"
             /\ sent = 1
             /\ attempt = 0

\* test_set_actuator_fail: ConnectionError, then True
C26_Witness ==
    /\ SecondOfTwoCalls
    /\ op = "set_actuator"
    /\ CallBefore.ep = ActSetEp
    /\ CallBefore.result = "ConnectionError"
    /\ ep = ActSetEp
    /\ result = "True"

\* ---- C27
\* _modify_device_config has returned from a call on a blob whose endpoints
\* value is a list without an endpoint named HomeAssistant
AppendCase ==
    /\ mcDone
    /\ mcBlob.endpoints.kind = "list"
    /\ \A i \in 1..Len(mcBlob.endpoints.items) :
          mcBlob.endpoints.items[i].name # "HomeAssistant"

\* C27: on a new-schema blob without an endpoint named HomeAssistant the
\* reconciler returns the blob with one endpoint more, the others as they
\* were and in their places, the new one last: its id is 1 when there was
\* no endpoint and the largest id plus 1 otherwise, its name HomeAssistant,
\* its type custom, enabled, connection_method wifi, and its config
\* {api_key: apiKey, data_format: json, url: serverUrl}.
C27_AppendsWithNextId ==
    AppendCase
    => /\ mcOut.kind = "blob"
       /\ mcOut.blob.endpoints.kind = "list"
       /\ LET old == mcBlob.endpoints.items
              new == mcOut.blob.endpoints.items
          IN  /\ Len(new) = Len(old) + 1
              /\ \A i \in 1..Len(old) : new[i] = old[i]
              /\ LET added == new[Len(new)]
                 IN  /\ \A i \in 1..Len(old) : old[i].id < added.id
                     /\ IF old = <<>> THEN added.id = 1
                        ELSE \E i \in 1..Len(old) : added.id = old[i].id + 1
                     /\ added.name = "HomeAssistant"
                     /\ added.type = "custom"
                     /\ added.enabled = TRUE
                     /\ added.connection_method = "wifi"
                     /\ added.config.api_key = mcKey
                     /\ added.config.data_format = "json"
                     /\ added.config.url = mcUrl
                     /\ added.config.extra = ""

\* endpoints with ids 3 and 1: the one appended gets id 4
C27_Witness ==
    /\ AppendCase
    /\ Len(mcBlob.endpoints.items) = 2
    /\ mcBlob.endpoints.items[1].id = 3
    /\ mcBlob.endpoints.items[2].id = 1
    /\ mcOut.blob.endpoints.items[3].id = 4
    /\ mcOut.blob.endpoints.items[3].name = "HomeAssistant"

\* ---- C28
\* _modify_device_config has returned from a call on a blob that has
\* api_key and hub and whose endpoints value, if any, is not a list
OldCase ==
    /\ mcDone
    /\ ~mcBlob.isNone
    /\ mcBlob.api_key # {}
    /\ mcBlob.hub # {}
    /\ mcBlob.endpoints.kind # "list"

\* C28: on an old-schema blob the reconciler returns the blob with api_key
\* set to apiKey, hub.server_url to serverUrl and hub.server_type to 3; the
\* other keys of hub and the other top-level keys are as they were, and no
\* endpoints list is added.
C28_OldSchemaFrame ==
    OldCase
    => /\ mcOut.kind = "blob"
       /\ ~mcOut.blob.isNone
       /\ mcOut.blob.api_key = {mcKey}
       /\ mcOut.blob.hub # {}
       /\ \A h \in mcOut.blob.hub, g \in mcBlob.hub :
             /\ h.server_url = {mcUrl}
             /\ h.server_type = {3}
             /\ h.other = g.other
       /\ mcOut.blob.endpoints = mcBlob.endpoints
       /\ mcOut.blob.misc = mcBlob.misc

\* a hub mapping that had another server in it
C28_Witness ==
    /\ OldCase
    /\ mcBlob.endpoints.kind = "absent"
    /\ \E g \in mcBlob.hub : g.server_url = {"http://old"} /\ g.server_type = {1}
    /\ \E h \in mcOut.blob.hub : h.server_type = {3} /\ h.other = "utc"
    /\ mcOut.blob.api_key = {"KEY_B"}

\* ---- C29
\* the returned blob carries an endpoint named HomeAssistant with apiKey
TookNewPath ==
    /\ mcOut.kind = "blob"
    /\ mcOut.blob.endpoints.kind = "list"
    /\ \E i \in 1..Len(mcOut.blob.endpoints.items) :
          /\ mcOut.blob.endpoints.items[i].name = "HomeAssistant"
          /\ mcOut.blob.endpoints.items[i].config.api_key = mcKey
    /\ mcOut.blob.api_key = mcBlob.api_key
    /\ mcOut.blob.hub = mcBlob.hub

\* the returned blob has apiKey at the top level and the endpoints value
\* it came with
TookOldPath ==
    /\ mcOut.kind = "blob"
    /\ mcOut.blob.api_key = {mcKey}
    /\ mcOut.blob.endpoints = mcBlob.endpoints

\* C29: the reconciler takes the new-schema path exactly when the blob has
\* an endpoints key whose value is a list, empty or not, whether or not
\* api_key and hub are there too; otherwise it takes the old-schema path
\* exactly when api_key and hub are both there, an endpoints key that is
\* null or not a list included; otherwise the blob is invalid and it
\* returns None.
C29_Classification ==
    mcDone
    => LET hasList == ~mcBlob.isNone /\ mcBlob.endpoints.kind = "list"
           hasBoth == ~mcBlob.isNone /\ mcBlob.api_key # {} /\ mcBlob.hub # {}
       IN  /\ hasList <=> TookNewPath
           /\ (~hasList /\ hasBoth) <=> TookOldPath
           /\ (~hasList /\ ~hasBoth) <=> mcOut.kind = "none"

\* a blob with an endpoints list, api_key and hub goes the new way
C29_Witness ==
    /\ mcDone
    /\ mcBlob.endpoints.kind = "list"
    /\ mcBlob.api_key = {"oldkey"}
    /\ mcBlob.hub # {}
    /\ TookNewPath
    /\ mcOut.blob.api_key = {"oldkey"}

\* ---- C30
\* the requests of a setup, in order
SetupOrder == <<"/api/config/get", "/api/config/set", "/api/info/get">>

\* the blob is of the new schema or of the old one
Classified(f) ==
    /\ ~f.isNone
    /\ \/ f.endpoints.kind = "list"
       \/ f.api_key # {} /\ f.hub # {}

\* the requests a setup has issued are the first of SetupOrder; the write
\* is among them only with a fetched blob of one of the two schemas, the
\* info refresh only with the written blob stored by the device
C30_Order ==
    (op = "setup" /\ pc # "idle")
    => /\ Len(reqLog) \in 1..3
       /\ \A i \in 1..Len(reqLog) : reqLog[i] = SetupOrder[i]
       /\ Len(reqLog) >= 2
             => /\ fetched # {}
                /\ \A f \in fetched : Classified(f)
                /\ written # {}
       /\ Len(reqLog) = 3 => devCfg \in written

\* a setup issues its next request in the step in which the request in
\* flight is answered with 2xx, never in one in which an attempt failed
C30_IssuedOnAnswer ==
    (op = "setup" /\ pc = "wait" /\ reqLog' # reqLog)
    => /\ script \in {{}, {0}}
       /\ script' = script
       /\ ep = reqLog[Len(reqLog)]
       /\ Len(reqLog') = Len(reqLog) + 1
       /\ ep' = SetupOrder[Len(reqLog')]

\* C30: a setup sends its requests in the order /api/config/get,
\* /api/config/set, /api/info/get; the write goes out only once the fetch
\* was answered and the blob is of the new or the old schema, and the info
\* refresh only once the write was answered with 2xx.
C30_SetupRequestOrder == []C30_Order /\ [][C30_IssuedOnAnswer]_vars

\* a setup that went through its three requests
C30_Witness ==
    /\ op = "setup"
    /\ pc = "done"
    /\ reqLog = SetupOrder
    /\ result = "True"
    /\ devCfg \in written

\* ---- C31
\* setup's info refresh was answered with 2xx and the response had no body,
\* or a body without a hub object
RefreshWithoutHub ==
    /\ pc = "done"
    /\ op = "setup"
    /\ Len(reqLog) = 3
    /\ reqLog[3] = "/api/info/get"
    /\ infoBody # {}
    /\ \A b \in infoBody : b.isNone \/ b.hub = {}

\* C31: when setup's config write was answered and its info refresh got a
\* 2xx response without a usable body, setup does not raise and returns
\* what the write step gave (true); info, num_sensors, num_actuators,
\* sw_version and is_ac read unset afterwards, whatever they read before.
C31_SetupTrueInfoUnset ==
    RefreshWithoutHub
    => /\ result = "True"
       /\ devCfg \in written
       /\ info = {}
       /\ NumSensors = {}
       /\ NumActuators = {}
       /\ SwVersion = {}
       /\ IsAc = {}

\* the response had no body at all, and _info had been cached before
C31_Witness ==
    /\ RefreshWithoutHub
    /\ \E b \in infoBody : b.isNone
    /\ hadInfo
    /\ result = "True"
    /\ info = {}

\* ---- C32
\* while a setup waits for its config fetch it holds no blob, neither a
\* fetched one nor one to write; the blob it sends to /api/config/set is
\* the reconciliation of the blob it holds as fetched
C32_NothingCarried ==
    op = "setup"
    => /\ (pc = "wait" /\ ep = "/api/config/get")
             => (fetched = {} /\ written = {})
       /\ written # {}
             => /\ fetched # {}
                /\ \A f \in fetched :
                      written = {ModifyDeviceConfig(f, apiKey, serverUrl).blob}

\* the blob a setup holds as fetched is the one the device had when its
\* own /api/config/get was answered
C32_FetchedInCall ==
    (op' = "setup" /\ fetched' # {} /\ fetched' # fetched)
    => /\ op = "setup"
       /\ pc = "wait"
       /\ ep = "/api/config/get"
       /\ fetched' = {devCfg}

\* C32: no configuration is kept from one call to the next.  The body of
\* every /api/config/set request of a setup is derived from the response
\* to the /api/config/get request of that same setup, never from a blob
\* that a call before it fetched or wrote.
C32_ConfigFromSameCall == []C32_NothingCarried /\ [][C32_FetchedInCall]_vars

\* a setup after a setup that had fetched another blob
C32_Witness ==
    /\ op = "setup"
    /\ pc = "done"
    /\ result = "True"
    /\ lastCall.calls # <<>>
    /\ lastCall.calls[1].op = "setup"
    /\ lastCall.calls[1].result = "True"
    /\ lastCall.calls[1].fetched # {}
    /\ lastCall.calls[1].fetched # fetched
    /\ devCfg \in written

\* ---- C33
\* the request last in flight was answered with 2xx
AnsweredAtLast == pc = "done" /\ attempt < sent

\* a request in flight, or answered, has had one attempt more than it had
\* failures; on a device that fails k attempts and answers the later ones
\* the answered attempt is attempt k + 1; the value handed back is the body
\* of that response
C33_Attempts ==
    /\ pc = "wait" => sent = attempt + 1
    /\ AnsweredAtLast
          => /\ sent = attempt + 1
             /\ \A k \in before : attempt = k
             /\ (op = "actuator_states" /\ result = "actuators")
                   => returned # {}
             /\ (op = "retrieve_mac_address") => infoBody # {}
             /\ (op = "setup" /\ ep = "/api/config/get") => fetched # {}

\* the step in which a request is answered sends nothing more to its
\* endpoint: the call ends with the attempts made so far, or goes on to
\* its next request
C33_NoAttemptAfterAnswer ==
    (pc = "wait" /\ attempt' # attempt + 1 /\ <<pc, ep, sent>>' # <<pc, ep, sent>>)
    => \/ pc' = "done" /\ sent' = sent /\ ep' = ep
       \/ pc' = "wait" /\ ep' # ep /\ sent' = 1 /\ op' = op

\* C33: the executor stops at the first 2xx response.  A request answered
\* at its k-th attempt has had exactly k attempts, hands back the body of
\* that response, and has no attempt after it, budget left or not.
C33_StopsAtFirstAnswer == []C33_Attempts /\ [][C33_NoAttemptAfterAnswer]_vars

\* answered at the second attempt of four allowed
C33_Witness ==
    /\ AnsweredAtLast
    /\ op = "set_actuator"
    /\ result = "True"
    /\ before = {1}
    /\ retries = 3
    /\ sent = 2

\* ---- C34
\* C34: on a new-schema device found with pairwise distinct endpoint ids,
\* whatever setups have succeeded so far (any apiKey, any serverUrl), the
\* device's endpoint ids are pairwise distinct and at most one endpoint has
\* the name HomeAssistant; and every change of the device's configuration
\* keeps it new-schema, keeps every endpoint that was there at its position
\* with its id, and touches no endpoint but the HomeAssistant one.
UniqueIds(items) ==
    \A i, j \in 1..Len(items) : items[i].id = items[j].id => i = j

C34_IdsUniqueOneHA ==
    IsNewSchema(devCfg)
    => /\ UniqueIds(devCfg.endpoints.items)
       /\ Cardinality(HAIndexes(devCfg.endpoints.items)) <= 1

C34_OldIdsKept ==
    (IsNewSchema(devCfg) /\ devCfg' # devCfg)
    => /\ IsNewSchema(devCfg')
       /\ Len(devCfg'.endpoints.items) >= Len(devCfg.endpoints.items)
       /\ \A i \in 1..Len(devCfg.endpoints.items) :
             /\ devCfg'.endpoints.items[i].id = devCfg.endpoints.items[i].id
             /\ devCfg.endpoints.items[i].name # HA_NAME
                   => devCfg'.endpoints.items[i] = devCfg.endpoints.items[i]

C34_SetupsKeepIds == []C34_IdsUniqueOneHA /\ [][C34_OldIdsKept]_vars

\* a second setup, with other arguments, has succeeded on a device where the
\* first one had appended the endpoint with id 3
C34_Witness ==
    /\ WroteConfig
    /\ result = "True"
    /\ \E f \in fetched :
          f.endpoints.items = <<VegeCloud(1), CustomServer(2),
                                HAEndpoint(3, "KEY_A", "http://ha/a")>>
    /\ devCfg.endpoints.items = <<VegeCloud(1), CustomServer(2),
                                  HAEndpoint(3, "KEY_B", "http://ha/b")>>

\* ---- C35
\* C35: two setups on one device, each free to fetch before the other has
\* written, leave on the device what the two calls leave when one runs after
\* the other, in one of the two orders: exactly one HomeAssistant endpoint,
\* pairwise distinct ids, every other endpoint as the device had it.  And a
\* write that follows a fetch gone stale leaves what the writer's whole
\* setup, run on what the device holds by then, would leave.
SetupAlone(blob, h) == ModifyDeviceConfig(blob, FleetKey(h), FleetUrl).blob

OneAfterTheOther(blob) ==
    { SetupAlone(SetupAlone(blob, pair[1]), pair[2]) :
        pair \in {p \in Handles \X Handles : p[1] # p[2]} }

OnOneDevice == fIp["hub"] = fIp["bad_hub"]

HasWritten(h) ==
    /\ fOp[h] = "setup"
    /\ \/ fPc[h] = "wait" /\ fEp[h] = InfoEp
       \/ fPc[h] = "done" /\ fResult[h] = "True"

OthersOf(items) == SelectSeq(items, LAMBDA e : e.name # HA_NAME)

C35_SerialOutcome ==
    (OnOneDevice /\ \A h \in Handles : HasWritten(h))
    => LET d == fIp["hub"]
       IN  /\ fCfg[d] \in OneAfterTheOther(FleetConfig(d))
           /\ Cardinality(HAIndexes(fCfg[d].endpoints.items)) = 1
           /\ UniqueIds(fCfg[d].endpoints.items)
           /\ OthersOf(fCfg[d].endpoints.items)
                 = OthersOf(FleetConfig(d).endpoints.items)

C35_StaleWrite ==
    \A h \in Handles :
        (fPc[h] = "wait" /\ fEp[h] = CfgSetEp /\ fEp'[h] = InfoEp)
        => fCfg'[fIp[h]] = SetupAlone(fCfg[fIp[h]], h)

C35_OverlappingSetups == []C35_SerialOutcome /\ [][C35_StaleWrite]_vars

\* both calls fetched the configuration the device began with, both have
\* written, and the write of "hub" came last
C35_Witness ==
    /\ OnOneDevice
    /\ \A h \in Handles :
          /\ fOp[h] = "setup" /\ fPc[h] = "wait" /\ fEp[h] = InfoEp
          /\ fFetched[h] = Some(FleetConfig("d1"))
    /\ fCfg["d1"].endpoints.items
          = <<VegeCloud(1), HAEndpoint(2, FleetKey("hub"), FleetUrl)>>

\* ---- C36
\* every attempt of the request last in flight failed
GaveUp == pc = "done" /\ attempt = sent

\* C36: a setup whose info refresh is given up raises ConnectionError with
\* the device holding the blob the call wrote; a setup that raises with its
\* config fetch given up has fetched and written nothing, and one that
\* raises with its config write given up leaves the device holding the blob
\* the call fetched; the device's configuration changes in no step but the
\* answer to a config write, which the info refresh follows.
C36_RaisedSetup ==
    (op = "setup" /\ GaveUp)
    => /\ result = "ConnectionError"
       /\ ep \in {CfgGetEp, CfgSetEp, InfoEp}
       /\ ep = InfoEp => written # {} /\ devCfg \in written
       /\ ep = CfgSetEp => fetched # {} /\ devCfg \in fetched
       /\ ep = CfgGetEp => fetched = {} /\ written = {}

C36_ChangedByAnsweredWrite ==
    devCfg' # devCfg
    => /\ op = "setup" /\ pc = "wait" /\ ep = CfgSetEp
       /\ op' = op /\ pc' = "wait" /\ ep' = InfoEp
       /\ attempt' = 0

C36_SetupNotAtomic == []C36_RaisedSetup /\ [][C36_ChangedByAnsweredWrite]_vars

\* setup has raised, and the device no longer holds what the call fetched
C36_Witness ==
    /\ op = "setup"
    /\ GaveUp
    /\ result = "ConnectionError"
    /\ ep = InfoEp
    /\ devCfg \in written
    /\ devCfg \notin fetched
    /\ fetched # {}

\* ---- C37
\* C37: whatever calls have been made, ip_address is the address the handle
\* was constructed with, url is "http://" followed by it, and unique_id is
\* the one the caller supplied; and no step of request_update, set_actuator
\* or actuator_states, from the call to its return or its raise, changes
\* _mac_address or _info (and so none of the fields read through them).
C37_Identity ==
    /\ ip_address = IP_ADDR
    /\ url = "http://" \o ip_address
    /\ unique_id = {UNIQUE_ID}

C37_CacheKept ==
    op' \in {"request_update", "set_actuator", "actuator_states"}
    => /\ mac' = mac
       /\ info' = info
       /\ identity' = identity

C37_IdentityAndCache == []C37_Identity /\ [][C37_CacheKept]_vars

\* set_actuator has raised on a handle that holds an address and an info
\* blob
C37_Witness ==
    /\ pc = "done"
    /\ op = "set_actuator"
    /\ result = "ConnectionError"
    /\ mac # <<>>
    /\ info # Absent

\* ---- C38
\* the requests an operation sends at most
MaxRequests(o) == IF o = "setup" THEN 3 ELSE 1

\* C38: every attempt coming to an end, a call that is waiting returns or
\* raises; a request has at most retries + 1 attempts, a call has at most
\* one request, setup at most three; and once a call has returned or raised
\* no attempt and no request goes out until the next call begins.
C38_Bounded ==
    /\ sent <= retries + 1
    /\ attempt <= retries + 1
    /\ Len(reqLog) <= MaxRequests(op)
    /\ pc = "wait" => Len(reqLog) >= 1 /\ sent >= 1

C38_NothingAfterReturn ==
    (pc = "done" /\ <<sent, attempt, reqLog, ep>>' # <<sent, attempt, reqLog, ep>>)
    => /\ pc' = "wait"
       /\ result' = "none"
       /\ sent' = 1
       /\ attempt' = 0
       /\ reqLog' = <<ep'>>

C38_Returns == (pc = "wait") ~> (pc = "done")

C38_Terminates ==
    /\ []C38_Bounded
    /\ [][C38_NothingAfterReturn]_vars
    /\ C38_Returns

\* a setup with retries = 3 has raised on its third request, having sent
\* four attempts of it
C38_Witness ==
    /\ pc = "done"
    /\ op = "setup"
    /\ retries = 3
    /\ Len(reqLog) = 3
    /\ sent = 4
    /\ result = "ConnectionError"

====
